---- MODULE Spec2Model ----
(***************************************************************************)
(* gtimelog2jira: the time-log reader, the entry classifier, the window    *)
(* filter, the tracker reconciler and the audit logger of gtimelog2jira.py *)
(* as a state machine, with the tracker of tests.py (JiraApi) as the       *)
(* remote side.                                                            *)
(*                                                                         *)
(* Values.  A str is a TLA+ string (Len, SubSeq and \o work on strings).   *)
(* An aware datetime is a record [ts, off]: ts the instant in seconds      *)
(* since the epoch (UTC), off its utcoffset in seconds.  Python compares   *)
(* and subtracts aware datetimes by instant, so every comparison below is  *)
(* on .ts; the wall-clock fields (ts + off) are what replace(), strftime() *)
(* and isoformat() read.  None is the record NoneVal.                      *)
(***************************************************************************)
EXTENDS Integers, Sequences, FiniteSets, TLC

\* ------------------------------------------------------------------------
\* Bounds of the model
\* ------------------------------------------------------------------------
MaxLines == 3
    \* lines of a time log read by SpecReader
MaxRuns == 2
    \* runs of main() in one behaviour of Spec
MaxTicks == 1
    \* days that pass in one behaviour of Spec
MaxEntries == 2

MaxWorkLogs == 2
    \* entries given to parse_timelog by SpecParse

\* utcoffset of the local zone (TZ=Europe/Vilnius in tests.py), in seconds
TzOffset == 10800
\* utcoffset the tracker may use to express the same instant (UTC)
TrackerOffset == 0

Minute == 60
Hour == 3600
Day == 86400

NoneVal == [none |-> TRUE]

\* ------------------------------------------------------------------------
\* str
\* ------------------------------------------------------------------------
Ch(s, i) == SubSeq(s, i, i)

Digits == {"0", "1", "2", "3", "4", "5", "6", "7", "8", "9"}

Letters ==
    {"a", "b", "c", "d", "e", "f", "g", "h", "i", "j", "k", "l", "m",
     "n", "o", "p", "q", "r", "s", "t", "u", "v", "w", "x", "y", "z",
     "A", "B", "C", "D", "E", "F", "G", "H", "I", "J", "K", "L", "M",
     "N", "O", "P", "Q", "R", "S", "T", "U", "V", "W", "X", "Y", "Z"}

\* \w of the re module
IsWord(c) == c \in Letters \cup Digits \cup {"_"}

DigitVal(c) ==
    CASE c = "0" -> 0 [] c = "1" -> 1 [] c = "2" -> 2 [] c = "3" -> 3
      [] c = "4" -> 4 [] c = "5" -> 5 [] c = "6" -> 6 [] c = "7" -> 7
      [] c = "8" -> 8 [] c = "9" -> 9

DigitChr(n) ==
    CASE n = 0 -> "0" [] n = 1 -> "1" [] n = 2 -> "2" [] n = 3 -> "3"
      [] n = 4 -> "4" [] n = 5 -> "5" [] n = 6 -> "6" [] n = 7 -> "7"
      [] n = 8 -> "8" [] n = 9 -> "9"

\* int(s) for a string of decimal digits
RECURSIVE ParseInt(_)
ParseInt(s) ==
    IF Len(s) = 0 THEN 0
    ELSE 10 * ParseInt(SubSeq(s, 1, Len(s) - 1)) + DigitVal(Ch(s, Len(s)))

\* str(n) for n >= 0
RECURSIVE IntStr(_)
IntStr(n) ==
    IF n < 10 THEN DigitChr(n) ELSE IntStr(n \div 10) \o DigitChr(n % 10)

StartsWith(s, p) == Len(p) <= Len(s) /\ SubSeq(s, 1, Len(p)) = p

EndsWith(s, p) ==
    Len(p) <= Len(s) /\ SubSeq(s, Len(s) - Len(p) + 1, Len(s)) = p

\* s.find(sub): the first index (from 1) at which sub occurs in s, 0 if none
Find(s, sub) ==
    LET hits == {i \in 1..(Len(s) - Len(sub) + 1) :
                    SubSeq(s, i, i + Len(sub) - 1) = sub}
    IN  IF hits = {} THEN 0 ELSE CHOOSE i \in hits : \A j \in hits : i <= j

\* s.rfind(sub): the last index (from 1) at which sub occurs in s, 0 if none
RFind(s, sub) ==
    LET hits == {i \in 1..(Len(s) - Len(sub) + 1) :
                    SubSeq(s, i, i + Len(sub) - 1) = sub}
    IN  IF hits = {} THEN 0 ELSE CHOOSE i \in hits : \A j \in hits : i >= j

\* s.strip(), the whitespace of the model's strings being the space
Strip(s) ==
    LET keep == {i \in 1..Len(s) : Ch(s, i) # " "}
    IN  IF keep = {} THEN ""
        ELSE SubSeq(s, CHOOSE i \in keep : \A j \in keep : i <= j,
                       CHOOSE i \in keep : \A j \in keep : i >= j)

\* sep.join(parts)
RECURSIVE Join(_, _)
Join(sep, parts) ==
    IF Len(parts) = 0 THEN ""
    ELSE IF Len(parts) = 1 THEN parts[1]
    ELSE parts[1] \o sep \o Join(sep, Tail(parts))

\* ------------------------------------------------------------------------
\* datetime
\* ------------------------------------------------------------------------
DateTime(ts, off) == [ts |-> ts, off |-> off]

\* datetime.strptime(text, '%Y-%m-%d %H:%M').astimezone(): the naive
\* wall-clock reading (date: days since the epoch) taken in the local zone
LocalTime(date, hour, minute) ==
    DateTime(date * Day + hour * Hour + minute * Minute - TzOffset, TzOffset)

\* dt.replace(hour=..., minute=...): same date and zone, new time of day;
\* the timestamps of a time log carry no seconds
Replace(dt, hour, minute) ==
    LET wall == dt.ts + dt.off
    IN  DateTime((wall \div Day) * Day + hour * Hour + minute * Minute - dt.off,
                 dt.off)

\* dt + timedelta(seconds=n)
Plus(dt, n) == DateTime(dt.ts + n, dt.off)

\* int((b - a).total_seconds())
SecondsBetween(a, b) == b.ts - a.ts

\* ------------------------------------------------------------------------
\* read_timelog
\* ------------------------------------------------------------------------
Entry(start, end, message) ==
    [start |-> start, end |-> end, message |-> message]

\* A line of the time log, as line.strip(), line.split(': ', 1) and
\* strptime(time, '%Y-%m-%d %H:%M') see it: blank; or one on which the split
\* or strptime raises ValueError; or 'YYYY-MM-DD HH:MM: note', given by its
\* date (days since the epoch), hour, minute and note.
BlankLine == [kind |-> "blank", date |-> 0, hour |-> 0, minute |-> 0, note |-> ""]

BadLine == [kind |-> "bad", date |-> 0, hour |-> 0, minute |-> 0, note |-> ""]

StampLine(date, hour, minute, note) ==
    [kind |-> "stamp", date |-> date, hour |-> hour, minute |-> minute,
     note |-> note]

\* hour, minute = map(int, midnight.split(':'))
MidnightOf(midnight) ==
    LET c == Find(midnight, ":")
    IN  [hour |-> ParseInt(SubSeq(midnight, 1, c - 1)),
         minute |-> ParseInt(SubSeq(midnight, c + 1, Len(midnight)))]

\* the reader's locals before the first line
ReaderInit ==
    [last |-> NoneVal, nextday |-> NoneVal, entries |-> 0, last_note |-> NoneVal]

\* a test that lets the line at the boundary close an interval
StartsNewDay_after_only(st, time) ==
    st.nextday = NoneVal \/ time.ts > st.nextday.ts

\* time >= nextday, the test that starts a new virtual day
StartsNewDay(st, time) == st.nextday = NoneVal \/ time.ts >= st.nextday.ts

\* nextday = time.replace(**midnight); if time >= nextday: nextday += day
NextDayOf(time, midnight) ==
    LET m == MidnightOf(midnight)
        nd == Replace(time, m.hour, m.minute)
    IN  IF time.ts >= nd.ts THEN Plus(nd, Day) ELSE nd

\* if last is not None and entries == 0: yield Entry(last, last, last_note)
IdleMarker(st) ==
    IF st.last # NoneVal /\ st.entries = 0
    THEN <<Entry(st.last, st.last, st.last_note)>>
    ELSE <<>>

\* a reader that yields the two ends of the interval in the other order
SpanEntry_reversed(last, time, note) == Entry(time, last, note)

\* yield Entry(last, time, note)
SpanEntry(last, time, note) == Entry(last, time, note)

\* a reader that forgets the line before a line it cannot read
SkipLine_forgetful(st) ==
    [st |-> [st EXCEPT !.last = NoneVal, !.nextday = NoneVal], out |-> <<>>]

\* continue, for a blank line and on ValueError: the locals stay, nothing
\* is yielded
SkipLine(st) == [st |-> st, out |-> <<>>]

\* a reader that measures every interval of a day from the day's first line
Advance_keeps_last(st, time, note) ==
    [last |-> st.last, nextday |-> st.nextday, entries |-> st.entries + 1,
     last_note |-> note]

\* entries += 1; last = time; last_note = note
Advance(st, time, note) ==
    [last |-> time, nextday |-> st.nextday, entries |-> st.entries + 1,
     last_note |-> note]

\* One pass of the loop body: the locals after the line, and what it yields.
ReadLine(st, line, midnight) ==
    IF line.kind # "stamp" THEN SkipLine(st)
    ELSE LET time == LocalTime(line.date, line.hour, line.minute)
         IN  IF StartsNewDay(st, time)
             THEN [st |-> [last |-> time,
                           nextday |-> NextDayOf(time, midnight),
                           entries |-> 0,
                           last_note |-> line.note],
                   out |-> IdleMarker(st)]
             ELSE [st |-> Advance(st, time, line.note),
                   out |-> <<SpanEntry(st.last, time, line.note)>>]

\* a reader that forgets the day the file ends in
ReadEnd_silent(st) == <<>>

\* the statement after the loop
ReadEnd(st) == IdleMarker(st)

RECURSIVE ReadFrom(_, _, _)
ReadFrom(st, f, midnight) ==
    IF Len(f) = 0 THEN ReadEnd(st)
    ELSE LET r == ReadLine(st, Head(f), midnight)
         IN  r.out \o ReadFrom(r.st, Tail(f), midnight)

\* list(read_timelog(f, midnight))
read_timelog(f, midnight) == ReadFrom(ReaderInit, f, midnight)

\* ------------------------------------------------------------------------
\* parse_timelog
\*
\* projects is the project keys in the order '|'.join(projects) gives them;
\* aliases is the alias table as the sequence of its items, in the order of
\* the configuration file, each [alias, issue]; include is a set of issue ids.
\* Project keys and aliases are literal text to the re module here (letters,
\* digits, '_' and '-').
\* ------------------------------------------------------------------------
Alias(alias, issue) == [alias |-> alias, issue |-> issue]

\* list(aliases): the keys of the table, in its order
RECURSIVE Keys(_)
Keys(aliases) ==
    IF Len(aliases) = 0 THEN <<>>
    ELSE <<Head(aliases).alias>> \o Keys(Tail(aliases))

\* aliases.get(token, ''): the default is not the token
Resolve_default_dropped(aliases, token) ==
    IF \E i \in 1..Len(aliases) : aliases[i].alias = token
    THEN aliases[CHOOSE i \in 1..Len(aliases) : aliases[i].alias = token].issue
    ELSE ""

\* aliases.get(token, token)
Resolve(aliases, token) ==
    IF \E i \in 1..Len(aliases) : aliases[i].alias = token
    THEN aliases[CHOOSE i \in 1..Len(aliases) : aliases[i].alias = token].issue
    ELSE token

\* sorted(keys, key=len, reverse=True): longest first, and stable
RECURSIVE SortedByLen(_)
SortedByLen(keys) ==
    IF Len(keys) = 0 THEN <<>>
    ELSE LET i == CHOOSE k \in 1..Len(keys) :
                    /\ \A j \in 1..Len(keys) : Len(keys[j]) <= Len(keys[k])
                    /\ \A j \in 1..(k - 1) : Len(keys[j]) < Len(keys[k])
         IN  <<keys[i]>> \o
             SortedByLen(SubSeq(keys, 1, i - 1) \o SubSeq(keys, i + 1, Len(keys)))

\* sorted_aliases of parse_timelog
SortedAliases(aliases) == SortedByLen(Keys(aliases))

\* \b at the place before s[i] (i = Len(s) + 1: the end of s)
WordBoundary(s, i) ==
    LET before == i > 1 /\ IsWord(Ch(s, i - 1))
        after == i <= Len(s) /\ IsWord(Ch(s, i))
    IN  before # after

\* the index after the longest run of digits of s that starts at j
RECURSIVE DigitsEnd(_, _)
DigitsEnd(s, j) ==
    IF j <= Len(s) /\ Ch(s, j) \in Digits THEN DigitsEnd(s, j + 1) ELSE j

\* the text lit at s[i..]: the index after it, 0 if it is not there
LiteralEnd(s, i, lit) ==
    LET e == i + Len(lit)
    IN  IF e - 1 <= Len(s) /\ SubSeq(s, i, e - 1) = lit THEN e ELSE 0

\* P-\d+\b at s[i..] for one project key P: the index after the match, 0 if
\* none.  \d+ is greedy, and giving digits back never helps \b, which does
\* not hold between two digits.
ProjectEnd(s, i, p) ==
    LET j == LiteralEnd(s, i, p \o "-")
    IN  IF j = 0 THEN 0
        ELSE LET e == DigitsEnd(s, j)
             IN  IF e > j /\ WordBoundary(s, e) THEN e ELSE 0

\* alias\b at s[i..]: the index after the match, 0 if none
AliasEnd(s, i, a) ==
    LET e == LiteralEnd(s, i, a)
    IN  IF e # 0 /\ WordBoundary(s, e) THEN e ELSE 0

\* the first of the ends that is a match (not 0), 0 if none: the leftmost
\* branch of an alternation wins
RECURSIVE FirstEnd(_)
FirstEnd(ends) ==
    IF Len(ends) = 0 THEN 0
    ELSE IF Head(ends) # 0 THEN Head(ends)
    ELSE FirstEnd(Tail(ends))

\* issue_re.match(s, i): \b(?:(?:P1|P2)-\d+|alias1|alias2)\b tried at s[i..],
\* the branches in the order of the pattern; the index after the match, 0 if
\* none
MatchAt(s, i, projects, sorted_aliases) ==
    IF ~WordBoundary(s, i) THEN 0
    ELSE FirstEnd([k \in 1..Len(projects) |-> ProjectEnd(s, i, projects[k])]
                  \o [k \in 1..Len(sorted_aliases) |->
                        AliasEnd(s, i, sorted_aliases[k])])

\* [m.group() for m in issue_re.finditer(s)] from index i on: the scan goes
\* left to right and resumes after each match
RECURSIVE FindIter(_, _, _, _)
FindIter(s, i, projects, sorted_aliases) ==
    IF i > Len(s) THEN <<>>
    ELSE LET e == MatchAt(s, i, projects, sorted_aliases)
         IN  IF e # 0
             THEN <<SubSeq(s, i, e - 1)>> \o FindIter(s, e, projects, sorted_aliases)
             ELSE FindIter(s, i + 1, projects, sorted_aliases)

\* a loop that looks at the first match only
FirstIssue_first_match_only(matches, aliases, include) ==
    IF Len(matches) = 0 THEN <<>>
    ELSE LET issue == Resolve(aliases, Head(matches))
         IN  IF include = {} \/ issue \in include THEN <<issue>> ELSE <<>>

\* the for/else over the matches: <<issue>> for the issue the loop breaks
\* on, <<>> when it runs to its end (the else branch)
RECURSIVE FirstIssue(_, _, _)
FirstIssue(matches, aliases, include) ==
    IF Len(matches) = 0 THEN <<>>
    ELSE LET issue == Resolve(aliases, Head(matches))
         IN  IF include = {} \/ issue \in include THEN <<issue>>
             ELSE FirstIssue(Tail(matches), aliases, include)

\* a clean-up that leaves the issue id at the end of the comment
CleanComment_prefix_only(message, issue) ==
    LET c0 == Strip(SubSeq(message, RFind(message, ":") + 1, Len(message)))
    IN  IF StartsWith(c0, issue)
        THEN Strip(SubSeq(c0, Len(issue) + 1, Len(c0)))
        ELSE c0

\* Clean up comment from categories and from issue id.
CleanComment(message, issue) ==
    LET c0 == Strip(SubSeq(message, RFind(message, ":") + 1, Len(message)))
        c1 == IF StartsWith(c0, issue)
              THEN Strip(SubSeq(c0, Len(issue) + 1, Len(c0)))
              ELSE c0
    IN  IF EndsWith(c1, issue)
        THEN IF Len(issue) = 0 THEN ""
             ELSE Strip(SubSeq(c1, 1, Len(c1) - Len(issue)))
        ELSE c1

WorkLog(entry, issue, comment) ==
    [entry |-> entry, start |-> entry.start, end |-> entry.end,
     seconds |-> SecondsBetween(entry.start, entry.end),
     issue |-> issue, comment |-> comment]

\* a test for the marker at the other end of the note
IsNonWork_at_start(message) == StartsWith(message, "**")

\* Skip all non-work related entries.
IsNonWork(message) == EndsWith(message, "**")

\* if worklog.seconds > 0: yield worklog
HasDuration(worklog) == worklog.seconds > 0

\* One pass of the loop body of parse_timelog: what it yields for an entry.
ParseEntry(entry, projects, aliases, include) ==
    IF IsNonWork(entry.message) THEN <<>>
    ELSE LET matches == FindIter(entry.message, 1, projects, SortedAliases(aliases))
             found == FirstIssue(matches, aliases, include)
         IN  IF Len(found) = 0 THEN <<>>
             ELSE LET issue == found[1]
                      worklog == WorkLog(entry, issue,
                                         CleanComment(entry.message, issue))
                  IN  IF HasDuration(worklog) THEN <<worklog>> ELSE <<>>

\* list(parse_timelog(entries, projects, aliases, include))
RECURSIVE parse_timelog(_, _, _, _)
parse_timelog(entries, projects, aliases, include) ==
    IF Len(entries) = 0 THEN <<>>
    ELSE ParseEntry(Head(entries), projects, aliases, include)
         \o parse_timelog(Tail(entries), projects, aliases, include)

\* ------------------------------------------------------------------------
\* filter_timelog.  An optional argument is <<>> (None) or <<value>>.
\* ------------------------------------------------------------------------
DefaultDays == 7

\* the default taken whenever since is None, an issue given or not
DefaultSince_without_issue(since, issue, now) ==
    IF since = <<>> THEN <<Plus(now, -(DefaultDays * Day))>> ELSE since

\* the default taken when either of the two is None
DefaultSince_either(since, issue, now) ==
    IF since = <<>> \/ issue = <<>> THEN <<Plus(now, -(DefaultDays * Day))>>
    ELSE since

\* if since is None and issue is None: since = get_now() - timedelta(days=7)
DefaultSince(since, issue, now) ==
    IF since = <<>> /\ issue = <<>> THEN <<Plus(now, -(DefaultDays * Day))>>
    ELSE since

\* a loop body whose first test is the wrong way round
Kept_since_reversed(entry, since, until, issue) ==
    /\ ~(since # <<>> /\ entry.start.ts > since[1].ts)
    /\ ~(until # <<>> /\ entry.end.ts > until[1].ts)
    /\ ~(issue # <<>> /\ issue[1] # "" /\ entry.issue # issue[1])

\* the three tests of the loop body; a datetime is always true, '' is false
Kept(entry, since, until, issue) ==
    /\ ~(since # <<>> /\ entry.start.ts < since[1].ts)
    /\ ~(until # <<>> /\ entry.end.ts > until[1].ts)
    /\ ~(issue # <<>> /\ issue[1] # "" /\ entry.issue # issue[1])

\* list(filter_timelog(entries, since=since, until=until, issue=issue)) with
\* get_now() returning now
filter_timelog(entries, since, until, issue, now) ==
    SelectSeq(entries,
              LAMBDA e : Kept(e, DefaultSince(since, issue, now), until, issue))

\* ------------------------------------------------------------------------
\* The tracker (JiraApi of tests.py): remote maps each issue the tracker
\* knows to its worklog records, oldest first.  A 'started' text is the
\* record [wall, off]: the wall-clock reading and the UTC offset it prints.
\* ------------------------------------------------------------------------
\* dt.strftime('%Y-%m-%dT%H:%M:%S.000%z')
Started(dt) == [wall |-> dt.ts + dt.off, off |-> dt.off]

\* a parser that drops %z and takes the reading for local time
ParseStarted_naive(text) == DateTime(text.wall - TzOffset, TzOffset)

\* datetime.strptime(text, '%Y-%m-%dT%H:%M:%S.%f%z')
ParseStarted(text) == DateTime(text.wall - text.off, text.off)

\* the same instant as the tracker prints it in the zone zone
InZone(text, zone) == [wall |-> text.wall - text.off + zone, off |-> zone]

RemoteRecord(id, author, started, seconds, comment) ==
    [id |-> id, author |-> [accountId |-> author], started |-> started,
     timeSpentSeconds |-> seconds, comment |-> comment]

NotFound(issue) ==
    [errorMessages |-> <<"Issue " \o issue \o " Does Not Exist">>,
     errors |-> <<>>]

\* GET /issue/{issue}/worklog: the status and the body
list_worklog(db, issue) ==
    IF issue \notin DOMAIN db
    THEN [status_code |-> 404, json |-> NotFound(issue)]
    ELSE [status_code |-> 200,
          json |-> [maxResults |-> Len(db[issue]), startAt |-> 0,
                    total |-> Len(db[issue]), worklogs |-> db[issue]]]

\* d.get(key, default)
Get(d, key, default) == IF key \in DOMAIN d THEN d[key] ELSE default

\* ------------------------------------------------------------------------
\* get_jira_worklog and sync_with_jira
\* ------------------------------------------------------------------------
JiraWorkLog(id, start, end) == [id |-> id, start |-> start, end |-> end]

JiraSyncStatus(entry, json, action) ==
    [entry |-> entry, json |-> json, action |-> action]

\* a fetch that takes the records of every author
ByAuthor_everyone(worklog, author_id) == TRUE

\* if author_id and worklog['author']['accountId'] != author_id: continue
ByAuthor(worklog, author_id) ==
    ~(author_id # "" /\ worklog.author.accountId # author_id)

\* started, ended and the JiraWorkLog of one record of the response
ToJiraWorkLog(worklog) ==
    LET started == ParseStarted(worklog.started)
        ended == Plus(started, worklog.timeSpentSeconds)
    IN  JiraWorkLog(worklog.id, started, ended)

RECURSIVE MapJiraWorkLog(_)
MapJiraWorkLog(worklogs) ==
    IF Len(worklogs) = 0 THEN <<>>
    ELSE <<ToJiraWorkLog(Head(worklogs))>> \o MapJiraWorkLog(Tail(worklogs))

\* list(get_jira_worklog(session, api_url, issue, author_id)) for the
\* response body json of the GET
get_jira_worklog(json, author_id) ==
    MapJiraWorkLog(SelectSeq(Get(json, "worklogs", <<>>),
                             LAMBDA w : ByAuthor(w, author_id)))

\* a test for records that share time with the entry
Contained_intersecting(x, entry) ==
    x.start.ts < entry.end.ts /\ x.end.ts > entry.start.ts

\* x.start >= entry.start and x.end <= entry.end
Contained(x, entry) == x.start.ts >= entry.start.ts /\ x.end.ts <= entry.end.ts

\* x.start == entry.start and x.end == entry.end
Exact(x, entry) == x.start.ts = entry.start.ts /\ x.end.ts = entry.end.ts

RECURSIVE Ids(_)
Ids(xs) == IF Len(xs) = 0 THEN <<>> ELSE <<Head(xs).id>> \o Ids(Tail(xs))

\* overlap = [x for x in worklog if ...]
Overlap(worklog, entry) == SelectSeq(worklog, LAMBDA x : Contained(x, entry))

\* full_overlap = [x.id for x in overlap if ...]
FullOverlap(overlap, entry) == Ids(SelectSeq(overlap, LAMBDA x : Exact(x, entry)))

\* a list of the records that differ from the entry at both ends
PartialOverlap_both_ends(overlap, entry) ==
    Ids(SelectSeq(overlap, LAMBDA x : x.start.ts # entry.start.ts
                                      /\ x.end.ts # entry.end.ts))

\* partial_overlap = [x.id for x in overlap if ...]
PartialOverlap(overlap, entry) ==
    Ids(SelectSeq(overlap, LAMBDA x : x.start.ts # entry.start.ts
                                      \/ x.end.ts # entry.end.ts))

\* the payload of an 'overlap' decision
OverlapPayload(overlap, entry) ==
    LET full_overlap == FullOverlap(overlap, entry)
        partial_overlap == PartialOverlap(overlap, entry)
    IN  [id |-> Join(";", full_overlap \o partial_overlap),
         full |-> Join(";", full_overlap),
         partial |-> Join(";", partial_overlap)]

\* the json of the POST
PostBody(entry) ==
    [started |-> Started(entry.start), timeSpentSeconds |-> entry.seconds,
     comment |-> entry.comment]

\* a reconciler that does not look at dry_run
Branch_dry_run_ignored(overlap, dry_run) ==
    IF Len(overlap) # 0 THEN "overlap" ELSE "post"

\* the branch of the if/elif/else of sync_with_jira that is taken
Branch(overlap, dry_run) ==
    IF Len(overlap) # 0 THEN "overlap"
    ELSE IF dry_run THEN "dry run"
    ELSE "post"

\* a reconciler that takes only the 5xx responses for errors
PostAction_server_errors(status_code) ==
    IF status_code >= 500 THEN "error" ELSE "add"

\* the action of a decision made from the response of the POST
PostAction(status_code) == IF status_code >= 400 THEN "error" ELSE "add"

\* ------------------------------------------------------------------------
\* sorted(entries, key=attrgetter('issue')): str compares by code point
\* ------------------------------------------------------------------------
CodePoints ==
    " *-0123456789:;ABCDEFGHIJKLMNOPQRSTUVWXYZ_abcdefghijklmnopqrstuvwxyz"

Ord(c) == Find(CodePoints, c)

\* a < b for two str
RECURSIVE StrLess(_, _)
StrLess(a, b) ==
    IF Len(b) = 0 THEN FALSE
    ELSE IF Len(a) = 0 THEN TRUE
    ELSE IF Ch(a, 1) # Ch(b, 1) THEN Ord(Ch(a, 1)) < Ord(Ch(b, 1))
    ELSE StrLess(SubSeq(a, 2, Len(a)), SubSeq(b, 2, Len(b)))

\* insert e before the first element whose issue is not smaller: the
\* WorkLogs of one issue come out in reverse
RECURSIVE InsertByIssue_before_equal(_, _)
InsertByIssue_before_equal(sorted, e) ==
    IF Len(sorted) = 0 THEN <<e>>
    ELSE IF ~StrLess(Head(sorted).issue, e.issue) THEN <<e>> \o sorted
    ELSE <<Head(sorted)>> \o InsertByIssue_before_equal(Tail(sorted), e)

\* insert e after the last element whose issue is not greater: stable
RECURSIVE InsertByIssue(_, _)
InsertByIssue(sorted, e) ==
    IF Len(sorted) = 0 THEN <<e>>
    ELSE IF StrLess(e.issue, Head(sorted).issue) THEN <<e>> \o sorted
    ELSE <<Head(sorted)>> \o InsertByIssue(Tail(sorted), e)

RECURSIVE SortInto(_, _)
SortInto(sorted, entries) ==
    IF Len(entries) = 0 THEN sorted
    ELSE SortInto(InsertByIssue(sorted, Head(entries)), Tail(entries))

SortedByIssue(entries) == SortInto(<<>>, entries)

\* ------------------------------------------------------------------------
\* log_jira_sync
\* ------------------------------------------------------------------------
\* dt.isoformat(timespec=...): the wall-clock reading cut to the unit (60 for
\* 'minutes', 1 for 'seconds') and the UTC offset
IsoFormat(dt, unit) ==
    [wall |-> ((dt.ts + dt.off) \div unit) * unit, off |-> dt.off]

\* the comment field of the line
AuditComment(entry, resp, action) ==
    IF action = "error" THEN Join("; ", Get(resp, "errorMessages", <<>>))
    ELSE entry.comment

\* The line f.write() gets for a decision, as its seven fields (the text is
\* the fields joined by ',' and a newline).
AuditLine(status, now) ==
    [now |-> IsoFormat(now, 1),
     start |-> IsoFormat(status.entry.start, Minute),
     seconds |-> status.entry.seconds,
     issue |-> status.entry.issue,
     id |-> Get(status.json, "id", ""),
     action |-> status.action,
     comment |-> AuditComment(status.entry, status.json, status.action)]

\* jiralog.open('w'): the file is cut to nothing
OpenAppend_truncating(content) == <<>>

\* jiralog.open('a'): what the file holds once it is open
OpenAppend(content) == content

\* what log_jira_sync yields after the write
PassedOn(status) == JiraSyncStatus(status.entry, status.json, status.action)

\* ------------------------------------------------------------------------
\* main, _main and sys.exit
\* ------------------------------------------------------------------------
\* what _main returns when read_config raises ConfigurationError
ConfigErrorReturn == 1

\* the exit status of parser.error()
UsageStatus == 2

\* main(): it calls _main and returns nothing, whatever _main returned
\* (<<>> is None)
MainReturn(ret) == <<>>

\* the exit status of sys.exit(arg) for arg None (<<>>), an int
\* (<<[code |-> n]>>) or a message printed to stderr (<<[message |-> text]>>)
SysExit(arg) ==
    IF arg = <<>> THEN 0
    ELSE IF "code" \in DOMAIN arg[1] THEN arg[1].code
    ELSE 1

\* the number of lines print() writes for a text
RECURSIVE CountNewlines(_)
CountNewlines(text) ==
    IF Len(text) = 0 THEN 0
    ELSE (IF Ch(text, 1) = "\n" THEN 1 ELSE 0)
         + CountNewlines(SubSeq(text, 2, Len(text)))

PrintedLines(text) == CountNewlines(text) + 1

\* print('Error:', e, file=stdout)
ErrorLine(message) == "Error: " \o message

\* The messages of the ConfigurationErrors read_config raises (paths, the
\* URL and the status code left out of the text).
ConfigErrors ==
    {"Configuration file does not exist.",
     "Section [gtimelog2jira] is not present in config file.",
     "Jira URL is not specified, set Jira URL via gtimelog2jira.jira setting.",
     "Jira username is not specified, set Jira username via gtimelog2jira.username setting.",
     "List of projects is not specified, set Jira projects via gtimelog2jira.projects setting.",
     "Timelog file does not exist.",
     "Jira log file is not writable.",
     "Error: Incorrect password or username.",
     "Jira credentials seems to be correct, but this user does not have permission to log in.\nTry to log in via browser, maybe you need to answer a security question: ",
     "Something went wrong, Jira gave status code."}

\* ------------------------------------------------------------------------
\* The configuration and the inputs of the runs
\* ------------------------------------------------------------------------
\* config['projects'], in the order of the pattern
Projects == <<"F", "B", "C">>

\* config['aliases']
Aliases == <<Alias("fb", "F-1")>>

\* config['midnight']
Midnight == "06:00"

\* config['self']['accountId'], and another user of the tracker
Me == "me"

Other == "other"

\* the first day of the time log, in days since the epoch
D0 == 10

\* The time log before the first run: a day of work on three issues, one of
\* them unknown to the tracker, and a break whose note names an issue.
Timelog0 ==
    <<StampLine(D0, 10, 0, "arrived"),
      StampLine(D0, 11, 0, "p: F-1 work"),
      StampLine(D0, 11, 30, "F-1 tea **"),
      StampLine(D0, 12, 30, "p: C-9 gone"),
      BlankLine,
      StampLine(D0, 13, 0, "B-2 fix")>>

\* what the user logs on the next day
Timelog1 ==
    <<StampLine(D0 + 1, 10, 0, "arrived"),
      StampLine(D0 + 1, 11, 0, "fb more")>>

\* 'started' of a record the tracker holds, in the zone zone
At(date, hour, minute, zone) ==
    InZone(Started(LocalTime(date, hour, minute)), zone)

\* What the tracker may hold before the first run.
Remotes ==
    { \* nothing logged yet
      [i \in {"B-2", "F-1"} |-> <<>>],
      \* F-1: somebody else's record and a shorter one of mine, both inside
      \* 10:00-11:00 and from 10:00; B-2: a record of mine, 12:00-12:45
      ("F-1" :> <<RemoteRecord("1", Other, At(D0, 10, 0, TzOffset), 300, "theirs"),
                  RemoteRecord("2", Me, At(D0, 10, 0, TrackerOffset), 600, "mine")>>
       @@ "B-2" :> <<RemoteRecord("3", Me, At(D0, 12, 0, TzOffset), 2700, "long")>>),
      \* F-1: my record of exactly 10:00-11:00 and a shorter one inside it;
      \* B-2: somebody else's record of exactly 12:30-13:00
      ("F-1" :> <<RemoteRecord("1", Me, At(D0, 10, 30, TzOffset), 60, "short"),
                  RemoteRecord("2", Me, At(D0, 10, 0, TrackerOffset), 3600, "mine")>>
       @@ "B-2" :> <<RemoteRecord("3", Other, At(D0, 12, 30, TzOffset), 1800,
                                  "theirs")>>) }

\* the ids the tracker has given out
RECURSIVE CountRecords(_, _)
CountRecords(db, issues) ==
    IF issues = {} THEN 0
    ELSE LET i == CHOOSE x \in issues : TRUE
         IN  Len(db[i]) + CountRecords(db, issues \ {i})

\* The command lines of a run: --dry-run, --since, --until, --issue.
Args(dry_run, since, until, issue) ==
    [dry_run |-> dry_run, since |-> since, until |-> until, issue |-> issue]

\* the command line of no process
NoArgs == Args(FALSE, <<>>, <<>>, <<>>)

\* Date()(value): the local midnight of a date
DateArg(date) == <<LocalTime(date, 0, 0)>>

ArgChoices ==
    {Args(d, f[1], f[2], f[3]) :
        d \in BOOLEAN,
        f \in {<<<<>>, <<>>, <<>>>>,
               <<DateArg(D0), <<>>, <<>>>>,
               <<<<>>, DateArg(D0 + 1), <<"fb">>>>,
               <<DateArg(D0 + 1), DateArg(D0), <<>>>>}}

\* the clock before the first run: noon, six days after the first day
Now0 == LocalTime(D0 + 6, 12, 0)

\* ------------------------------------------------------------------------
\* State
\* ------------------------------------------------------------------------
VARIABLES
    timelog,        \* the lines of the time-log file
    remote,         \* the tracker: issue -> its worklog records
    idseq,          \* the tracker: the next worklog id
    now,            \* the clock, what get_now() returns
    jiralog,        \* the audit log file: the lines it holds
    pc,             \* "start": no process runs; "sync": in the pipeline;
                    \* "interrupted": the last process was interrupted
    runs,           \* processes started so far
    args,           \* the command line of the run
    entries,        \* sync_with_jira: the sorted WorkLogs of the run
    pos,            \* sync_with_jira: WorkLogs of entries already taken
    group,          \* sync_with_jira: <<issue>> of the group being worked on
    worklog,        \* sync_with_jira: the records fetched for that group
    stage,          \* which stage runs next: "sync", "log" or "show"
    cur,            \* <<the decision handed from stage to stage>>
    written,        \* log_jira_sync: the lines given to f.write() in this run
    fbuf,           \* log_jira_sync: those of them that are not yet on disk
    stdout,         \* what the run has printed
    exit_status,    \* <<the exit status of the last process>>
    done,           \* the decisions sync_with_jira has yielded in this run
    shown,          \* the decisions show_results has received in this run
    gets,           \* the issues of the GETs of this run
    posts,          \* every POST made, in any run
    last_run        \* <<what the last run that ended by itself was given and
                    \* decided>>
VARIABLES
    f,              \* read_timelog: the lines given to it
    midnight,       \* read_timelog: the virtual midnight given to it
    line_no,        \* read_timelog: lines consumed
    reader,         \* read_timelog: last, nextday, entries, last_note
    emitted         \* read_timelog: the entries yielded so far
VARIABLES
    pt_entries,     \* parse_timelog: the entries given to it
    pt_projects,    \* parse_timelog: projects
    pt_aliases,     \* parse_timelog: aliases
    pt_include,     \* parse_timelog: include
    pt_pos,         \* parse_timelog: entries consumed
    pt_yielded      \* parse_timelog: the WorkLogs yielded so far
VARIABLES
    ft_entries,     \* filter_timelog: the WorkLogs given to it
    ft_since,       \* filter_timelog: since, <<>> for None
    ft_until,       \* filter_timelog: until, <<>> for None
    ft_issue,       \* filter_timelog: issue, <<>> for None
    ft_now,         \* filter_timelog: what get_now() returns
    ft_pos,         \* filter_timelog: WorkLogs consumed
    ft_yielded      \* filter_timelog: the WorkLogs yielded so far

VARIABLES
    au_password,    \* read_config: password, "" for None and for ''
    au_keyring,     \* the system keyring: its backend and the saved password
    au_typed,       \* what getpass.getpass() returns, call by call
    au_answers,     \* the status codes of GET /myself, request by request
    au_attempt,     \* read_config: attempt
    au_prompts,     \* the calls of getpass.getpass() made
    au_requests,    \* the passwords GET /myself was sent with
    au_resp,        \* read_config: resp.status_code, 0 before a request
    au_pc,          \* read_config: where it is in the password part
    au_error        \* the message of the ConfigurationError raised, or ""

env_vars == <<timelog, remote, idseq, now, jiralog>>

run_vars ==
    <<pc, runs, args, entries, pos, group, worklog, stage, cur, written, fbuf,
      stdout, exit_status, done, shown, gets, posts, last_run>>

reader_vars == <<f, midnight, line_no, reader, emitted>>

parser_vars ==
    <<pt_entries, pt_projects, pt_aliases, pt_include, pt_pos, pt_yielded>>

filter_vars ==
    <<ft_entries, ft_since, ft_until, ft_issue, ft_now, ft_pos, ft_yielded>>

auth_vars ==
    <<au_password, au_keyring, au_typed, au_answers, au_attempt, au_prompts,
      au_requests, au_resp, au_pc, au_error>>

vars ==
    <<env_vars, run_vars, reader_vars, parser_vars, filter_vars, auth_vars>>

\* the pipeline up to the sort of sync_with_jira, for a time log, a command
\* line and the clock
Pipeline(lines, a, clock) ==
    SortedByIssue(
        filter_timelog(
            parse_timelog(read_timelog(lines, Midnight), Projects, Aliases, {}),
            a.since, a.until,
            IF a.issue = <<>> THEN <<>> ELSE <<Resolve(Aliases, a.issue[1])>>,
            clock))

\* the reader at rest, for the behaviours of the program
ReaderIdle ==
    /\ f = <<>>
    /\ midnight = Midnight
    /\ line_no = 0
    /\ reader = ReaderInit
    /\ emitted = <<>>

\* no process has run yet
ProgramInit ==
    /\ timelog = Timelog0
    /\ remote \in Remotes
    /\ idseq = CountRecords(remote, DOMAIN remote) + 1
    /\ now = Now0
    /\ jiralog = <<>>
    /\ pc = "start"
    /\ runs = 0
    /\ args = NoArgs
    /\ entries = <<>>
    /\ pos = 0
    /\ group = <<>>
    /\ worklog = <<>>
    /\ stage = "sync"
    /\ cur = <<>>
    /\ written = <<>>
    /\ fbuf = <<>>
    /\ stdout = <<>>
    /\ exit_status = <<>>
    /\ done = <<>>
    /\ shown = <<>>
    /\ gets = <<>>
    /\ posts = <<>>
    /\ last_run = <<>>

\* parse_timelog and filter_timelog at rest, for the behaviours of the
\* program and of the reader
ParserIdle ==
    /\ pt_entries = <<>>
    /\ pt_projects = Projects
    /\ pt_aliases = Aliases
    /\ pt_include = {}
    /\ pt_pos = 0
    /\ pt_yielded = <<>>

FilterIdle ==
    /\ ft_entries = <<>>
    /\ ft_since = <<>>
    /\ ft_until = <<>>
    /\ ft_issue = <<>>
    /\ ft_now = Now0
    /\ ft_pos = 0
    /\ ft_yielded = <<>>

\* the password part of read_config is not looked into
AuthIdle ==
    /\ au_password = ""
    /\ au_keyring = [backend |-> TRUE, saved |-> <<>>]
    /\ au_typed = <<>>
    /\ au_answers = <<>>
    /\ au_attempt = 0
    /\ au_prompts = 0
    /\ au_requests = <<>>
    /\ au_resp = 0
    /\ au_pc = "idle"
    /\ au_error = ""

Init == ProgramInit /\ ReaderIdle /\ ParserIdle /\ FilterIdle /\ AuthIdle

\* The locals of a process that has ended are gone, and so is the record of
\* what it did.
NoLocals ==
    /\ args' = NoArgs
    /\ entries' = <<>>
    /\ pos' = 0
    /\ group' = <<>>
    /\ worklog' = <<>>
    /\ stage' = "sync"
    /\ cur' = <<>>
    /\ written' = <<>>
    /\ fbuf' = <<>>
    /\ done' = <<>>
    /\ shown' = <<>>
    /\ gets' = <<>>

\* the command line is one main() rejects: the time interval is empty
EmptyInterval(a) ==
    a.since # <<>> /\ a.until # <<>> /\ a.since[1].ts >= a.until[1].ts

\* a process can start
CanStart == pc = "start" /\ runs < MaxRuns

\* parser.error(): the time interval is empty
UsageError ==
    \E a \in ArgChoices :
        /\ CanStart
        /\ EmptyInterval(a)
        /\ runs' = runs + 1
        /\ stdout' = <<>>
        /\ exit_status' = <<UsageStatus>>
        /\ NoLocals
        /\ pc' = "start"
        /\ UNCHANGED <<env_vars, posts, last_run, reader_vars, parser_vars,
                   filter_vars, auth_vars>>

\* read_config raises ConfigurationError: _main prints it and returns 1
ConfigError ==
    \E message \in ConfigErrors :
        /\ CanStart
        /\ runs' = runs + 1
        /\ stdout' = <<ErrorLine(message)>>
        /\ exit_status' = <<SysExit(MainReturn(<<[code |-> ConfigErrorReturn]>>))>>
        /\ NoLocals
        /\ pc' = "start"
        /\ UNCHANGED <<env_vars, posts, last_run, reader_vars, parser_vars,
                   filter_vars, auth_vars>>

\* read_config returns: the stages are chained, show_results asks for the
\* first decision, log_jira_sync opens the audit log and sync_with_jira sorts
\* what the first three stages give
StartSync ==
    \E a \in ArgChoices :
        /\ CanStart
        /\ ~EmptyInterval(a)
        /\ runs' = runs + 1
        /\ args' = a
        /\ jiralog' = OpenAppend(jiralog)
        /\ entries' = Pipeline(timelog, a, now)
        /\ stdout' = <<"">>
        /\ exit_status' = <<>>
        /\ pc' = "sync"
        /\ UNCHANGED <<timelog, remote, idseq, now, pos, group, worklog, stage,
                       cur, written, fbuf, done, shown, gets, posts, last_run, reader_vars, parser_vars,
                   filter_vars, auth_vars>>

\* the WorkLog sync_with_jira takes next
NextEntry == entries[pos + 1]

\* sync_with_jira enters a group: the GET of its issue
Fetch ==
    /\ pc = "sync" /\ stage = "sync" /\ pos < Len(entries)
    /\ group # <<NextEntry.issue>>
    /\ group' = <<NextEntry.issue>>
    /\ worklog' = get_jira_worklog(list_worklog(remote, NextEntry.issue).json, Me)
    /\ gets' = Append(gets, NextEntry.issue)
    /\ UNCHANGED <<env_vars, pc, runs, args, entries, pos, stage, cur, written,
                   fbuf, stdout, exit_status, done, shown, posts, last_run, reader_vars, parser_vars,
                   filter_vars, auth_vars>>

\* a decision that goes past log_jira_sync: sync_with_jira takes the next
\* WorkLog at once
Yield_unlogged(status) ==
    /\ pos' = pos + 1
    /\ cur' = <<>>
    /\ done' = Append(done, status)
    /\ stage' = "sync"
    /\ UNCHANGED <<timelog, now, jiralog, pc, runs, args, entries, group,
                   worklog, written, fbuf, stdout, exit_status, shown, gets,
                   last_run, reader_vars, parser_vars,
                   filter_vars, auth_vars>>

\* sync_with_jira yields status for the entry it took
Yield(status) ==
    /\ pos' = pos + 1
    /\ cur' = <<status>>
    /\ done' = Append(done, status)
    /\ stage' = "log"
    /\ UNCHANGED <<timelog, now, jiralog, pc, runs, args, entries, group,
                   worklog, written, fbuf, stdout, exit_status, shown, gets,
                   last_run, reader_vars, parser_vars,
                   filter_vars, auth_vars>>

\* if overlap: ... yield JiraSyncStatus(entry, resp, 'overlap')
SkipOverlap ==
    /\ pc = "sync" /\ stage = "sync" /\ pos < Len(entries)
    /\ group = <<NextEntry.issue>>
    /\ LET overlap == Overlap(worklog, NextEntry)
       IN  /\ Branch(overlap, args.dry_run) = "overlap"
           /\ Yield(JiraSyncStatus(NextEntry, OverlapPayload(overlap, NextEntry),
                                   "overlap"))
    /\ UNCHANGED <<remote, idseq, posts>>

\* elif dry_run: yield JiraSyncStatus(entry, {}, 'add (dry run)')
DryRun ==
    /\ pc = "sync" /\ stage = "sync" /\ pos < Len(entries)
    /\ group = <<NextEntry.issue>>
    /\ Branch(Overlap(worklog, NextEntry), args.dry_run) = "dry run"
    /\ Yield(JiraSyncStatus(NextEntry, <<>>, "add (dry run)"))
    /\ UNCHANGED <<remote, idseq, posts>>

\* POST /issue/{issue}/worklog of the tracker for an issue it knows: the
\* record it stores and answers with, 'started' printed in its own zone
Created(issue, body) ==
    RemoteRecord(IntStr(idseq), Me, InZone(body.started, TrackerOffset),
                 body.timeSpentSeconds, body.comment)

\* else: resp = session.post(...) and the decision made from it
Post ==
    /\ pc = "sync" /\ stage = "sync" /\ pos < Len(entries)
    /\ group = <<NextEntry.issue>>
    /\ Branch(Overlap(worklog, NextEntry), args.dry_run) = "post"
    /\ LET issue == NextEntry.issue
           body == PostBody(NextEntry)
           status_code == IF issue \in DOMAIN remote THEN 201 ELSE 404
           json == IF issue \in DOMAIN remote THEN Created(issue, body)
                   ELSE NotFound(issue)
       IN  /\ remote' = IF issue \in DOMAIN remote
                        THEN [remote EXCEPT ![issue] = Append(@, json)]
                        ELSE remote
           /\ idseq' = IF issue \in DOMAIN remote THEN idseq + 1 ELSE idseq
           /\ posts' = Append(posts, [run |-> runs, issue |-> issue,
                                      json |-> body, status_code |-> status_code,
                                      resp |-> json, entry |-> NextEntry])
           /\ Yield(JiraSyncStatus(NextEntry, json, PostAction(status_code)))

\* log_jira_sync: f.write() of the line of the decision, then the yield.
\* f is buffered: the write leaves the line in the buffer of f, and when the
\* buffer is full the lines written before go to the disk first.
LogWrite ==
    /\ pc = "sync" /\ stage = "log"
    /\ written' = Append(written, AuditLine(cur[1], now))
    /\ \E full \in BOOLEAN :
        /\ jiralog' = IF full THEN jiralog \o fbuf ELSE jiralog
        /\ fbuf' = Append(IF full THEN <<>> ELSE fbuf, AuditLine(cur[1], now))
    /\ cur' = <<PassedOn(cur[1])>>
    /\ stage' = "show"
    /\ UNCHANGED <<timelog, remote, idseq, now, pc, runs, args,
                   entries, pos, group, worklog, stdout, exit_status, done,
                   shown, gets, posts, last_run, reader_vars, parser_vars,
                   filter_vars, auth_vars>>

\* the tag show_results prints for a decision
ReportTag(action) ==
    IF action = "error" THEN "ERR"
    ELSE IF action = "overlap" THEN "OVR"
    ELSE "ADD"

\* show_results: the loop body for the decision, then it asks for the next
Show ==
    /\ pc = "sync" /\ stage = "show"
    /\ shown' = Append(shown, cur[1])
    /\ stdout' = Append(stdout, ReportTag(cur[1].action))
    /\ cur' = <<>>
    /\ stage' = "sync"
    /\ UNCHANGED <<env_vars, pc, runs, args, entries, pos, group, worklog,
                   written, fbuf, exit_status, done, gets, posts, last_run, reader_vars, parser_vars,
                   filter_vars, auth_vars>>

\* a run that has ended: its command line, the time log, the clock and the
\* tracker it found, and the decisions sync_with_jira yielded in it
RunRecord(a, lines, clock, db, decisions) ==
    [args |-> a, timelog |-> lines, now |-> clock, remote |-> db,
     done |-> decisions]

\* the decisions are exhausted: the with block of log_jira_sync closes f,
\* show_results prints the totals, _main returns None
EndRun ==
    /\ pc = "sync" /\ stage = "sync" /\ pos = Len(entries)
    /\ jiralog' = jiralog \o fbuf
    /\ exit_status' = <<SysExit(MainReturn(<<>>))>>
    /\ last_run' = <<RunRecord(args, timelog, now, remote, done)>>
    /\ NoLocals
    /\ pc' = "start"
    /\ UNCHANGED <<timelog, remote, idseq, now, runs, stdout,
                   posts, reader_vars, parser_vars,
                   filter_vars, auth_vars>>

\* KeyboardInterrupt in the pipeline: the generators are closed (f with
\* them) and main() exits with the message.  The behaviour follows the user
\* no further.
Interrupt ==
    /\ pc = "sync"
    /\ jiralog' = jiralog \o fbuf
    /\ exit_status' = <<SysExit(<<[message |-> "Interrupted!"]>>)>>
    /\ NoLocals
    /\ pc' = "interrupted"
    /\ UNCHANGED <<timelog, remote, idseq, now, runs, stdout,
                   posts, last_run, reader_vars, parser_vars,
                   filter_vars, auth_vars>>

\* between two runs a day passes
Tick ==
    /\ pc = "start" /\ runs > 0
    /\ now.ts < Now0.ts + MaxTicks * Day
    /\ now' = Plus(now, Day)
    /\ UNCHANGED <<timelog, remote, idseq, jiralog, run_vars,
                   reader_vars, parser_vars,
                   filter_vars, auth_vars>>

\* between two runs the user logs the next day
AppendLog ==
    /\ pc = "start"
    /\ timelog = Timelog0
    /\ timelog' = timelog \o Timelog1
    /\ UNCHANGED <<remote, idseq, now, jiralog, run_vars,
                   reader_vars, parser_vars,
                   filter_vars, auth_vars>>

Next ==
    \/ UsageError
    \/ ConfigError
    \/ StartSync
    \/ Fetch
    \/ SkipOverlap
    \/ DryRun
    \/ Post
    \/ LogWrite
    \/ Show
    \/ EndRun
    \/ Interrupt
    \/ Tick
    \/ AppendLog

Spec == Init /\ [][Next]_vars

\* ------------------------------------------------------------------------
\* Properties of the runs, on the behaviours of Spec
\* ------------------------------------------------------------------------
SetOf(seq) == {seq[i] : i \in 1..Len(seq)}

Last(seq) == seq[Len(seq)]

IsPrefix(a, b) == Len(a) <= Len(b) /\ SubSeq(b, 1, Len(a)) = a

\* the configurations parse_timelog is tried with
ParseConfigs ==
    {[aliases |-> al, include |-> inc] :
        al \in {<<>>, Aliases}, inc \in {{}, {"F-1"}, {"F-2"}}}

\* the ids of a field that joins ids with ';'
RECURSIVE SplitIds(_)
SplitIds(text) ==
    IF text = "" THEN <<>>
    ELSE LET i == Find(text, ";")
         IN  IF i = 0 THEN <<text>>
             ELSE <<SubSeq(text, 1, i - 1)>>
                  \o SplitIds(SubSeq(text, i + 1, Len(text)))

\* two WorkLogs for the same issue, start and end
SameWorkLog(a, b) ==
    a.issue = b.issue /\ a.start.ts = b.start.ts /\ a.end.ts = b.end.ts

\* a POST of this run was made for the WorkLog
PostedInThisRun(e) ==
    \E i \in 1..Len(posts) : posts[i].run = runs /\ posts[i].entry = e

\* sync_with_jira has just yielded the decision cur[1]; worklog is what it
\* fetched for the issue of that decision
JustDecided == pc = "sync" /\ stage = "log"

\* the fetched records (as indices of worklog) that lie inside the interval
\* of the WorkLog e, those that match it exactly, and those that share time
\* with it
Inside(e) ==
    {i \in 1..Len(worklog) : /\ worklog[i].start.ts >= e.start.ts
                             /\ worklog[i].end.ts <= e.end.ts}

Matching(e) ==
    {i \in 1..Len(worklog) : /\ worklog[i].start.ts = e.start.ts
                             /\ worklog[i].end.ts = e.end.ts}

Meeting(e) ==
    {i \in 1..Len(worklog) : /\ worklog[i].start.ts < e.end.ts
                             /\ worklog[i].end.ts > e.start.ts}

IdsAt(S) == {worklog[i].id : i \in S}

\* C1: once a run has created the record of a WorkLog (the POST succeeded
\* and the tracker stored it under the current user), a later run that
\* yields the same WorkLog again decides 'overlap' for it with the id of the
\* created record in 'full', and no later run POSTs it: a WorkLog is never
\* added twice across runs.
C1_NeverAddedTwiceAcrossRuns ==
    /\ \A i \in 1..Len(posts), j \in 1..Len(done) :
          (/\ posts[i].run < runs
           /\ posts[i].status_code < 400
           /\ SameWorkLog(posts[i].entry, done[j].entry))
          => /\ done[j].action = "overlap"
             /\ posts[i].resp.id \in SetOf(SplitIds(done[j].json.full))
    /\ \A i, j \in 1..Len(posts) :
          (posts[i].status_code < 400 /\ posts[i].run < posts[j].run)
          => ~SameWorkLog(posts[i].entry, posts[j].entry)

\* a later run has decided 'overlap' for a WorkLog an earlier run created,
\* with the id of the created record in 'full'
C1_Witness ==
    \E i \in 1..Len(posts), j \in 1..Len(done) :
        /\ posts[i].run < runs
        /\ posts[i].status_code < 400
        /\ SameWorkLog(posts[i].entry, done[j].entry)
        /\ done[j].action = "overlap"
        /\ posts[i].resp.id \in SetOf(SplitIds(done[j].json.full))

\* one step of a run started with --dry-run
DryRunStep ==
    (pc = "sync" /\ args.dry_run)
    => /\ remote' = remote
       /\ idseq' = idseq
       /\ posts' = posts
       /\ Len(done') > Len(done)
             => /\ done' = Append(done, Last(done'))
                /\ Last(done').action \in {"overlap", "add (dry run)"}
                /\ Last(done').action = "add (dry run)"
                      => DOMAIN Last(done').json = {}

\* C2: a run with dry_run set makes no POST and leaves the tracker as it
\* was, and every decision it yields is 'overlap' or 'add (dry run)' with an
\* empty payload, also for an issue the tracker does not know.
C2_DryRunCreatesNothing == [][DryRunStep]_vars

\* a dry run has decided 'add (dry run)' for an issue the tracker does not
\* know and 'overlap' for another
C2_Witness ==
    /\ pc = "sync"
    /\ args.dry_run
    /\ \E j, k \in 1..Len(done) :
          /\ done[j].action = "add (dry run)"
          /\ done[j].entry.issue \notin DOMAIN remote
          /\ done[k].action = "overlap"

\* C3: a WorkLog is decided 'overlap' exactly when a fetched record of its
\* issue lies inside its interval (record.start >= start and record.end <=
\* end); then no POST is made for it, 'full' holds the ids of the records
\* that match both ends, 'partial' the ids of the other records inside, each
\* id is in one of the two, and 'id' is the ids of 'full' then those of
\* 'partial' joined by ';'.
C3_OverlapIffRecordInside ==
    JustDecided =>
        LET d == cur[1]
            e == d.entry
        IN  /\ (d.action = "overlap") <=> (Inside(e) # {})
            /\ (d.action = "overlap") =>
                  LET full == SplitIds(d.json.full)
                      partial == SplitIds(d.json.partial)
                  IN  /\ SetOf(full) = IdsAt(Inside(e) \cap Matching(e))
                      /\ SetOf(partial) = IdsAt(Inside(e) \ Matching(e))
                      /\ SetOf(full) \cap SetOf(partial) = {}
                      /\ Len(full) + Len(partial) = Cardinality(Inside(e))
                      /\ d.json.id = Join(";", full \o partial)
                      /\ ~PostedInThisRun(e)

\* an 'overlap' decision with an id in 'full' and another in 'partial'
C3_Witness ==
    /\ JustDecided
    /\ cur[1].action = "overlap"
    /\ cur[1].json.full # ""
    /\ cur[1].json.partial # ""
    /\ Cardinality(Inside(cur[1].entry)) >= 2

\* C4 as it is stated: a WorkLog whose interval shares time with a fetched
\* record of its issue by the current user, none of the fetched records
\* matching it exactly, is decided 'overlap' (partial) and no POST is made
\* for it, so time is never double-booked.
C4_IntersectingWorkLogIsSkipped ==
    JustDecided =>
        LET d == cur[1]
            e == d.entry
        IN  (Meeting(e) # {} /\ Matching(e) = {})
            => /\ d.action = "overlap"
               /\ d.json.partial # ""
               /\ ~PostedInThisRun(e)

\* C4, amended: a WorkLog whose interval contains a fetched record of its
\* issue by the current user (record.start >= start and record.end <= end),
\* none of the fetched records matching it exactly, is decided 'overlap'
\* with the ids of the contained records in 'partial' and 'full' empty, and
\* no POST is made for it; a WorkLog that only shares time with fetched
\* records and contains none is not skipped: it is 'add (dry run)' in a dry
\* run and POSTed otherwise.
C4_WorkLogContainingRecordIsSkipped ==
    JustDecided =>
        LET d == cur[1]
            e == d.entry
        IN  /\ (Inside(e) # {} /\ Matching(e) = {})
               => /\ d.action = "overlap"
                  /\ d.json.full = ""
                  /\ SetOf(SplitIds(d.json.partial)) = IdsAt(Inside(e))
                  /\ ~PostedInThisRun(e)
            /\ (Meeting(e) # {} /\ Inside(e) = {})
               => IF args.dry_run
                  THEN d.action = "add (dry run)" /\ ~PostedInThisRun(e)
                  ELSE d.action \in {"add", "error"} /\ PostedInThisRun(e)

\* an 'overlap' decision for a WorkLog that contains a record and matches
\* none
C4_Witness ==
    /\ JustDecided
    /\ cur[1].action = "overlap"
    /\ Inside(cur[1].entry) # {}
    /\ Matching(cur[1].entry) = {}
    /\ cur[1].json.partial # ""

\* the decision just yielded was made from a POST the tracker refused
JustRefused ==
    /\ JustDecided
    /\ posts # <<>>
    /\ Last(posts).run = runs
    /\ Last(posts).entry = cur[1].entry
    /\ Last(posts).status_code >= 400

\* the audit lines of the run are those of its decisions, in their order
LinesFollowDecisions ==
    /\ Len(written) <= Len(done)
    /\ \A i \in 1..Len(written) :
          /\ written[i].issue = done[i].entry.issue
          /\ written[i].start = IsoFormat(done[i].entry.start, Minute)
          /\ written[i].seconds = done[i].entry.seconds
          /\ written[i].action = done[i].action

\* what holds of an 'error' decision and of its audit line
ErrorIsRecorded ==
    /\ JustRefused => /\ cur[1].action = "error"
                      /\ cur[1].json = Last(posts).resp
    /\ (pc = "sync" /\ stage = "show" /\ cur[1].action = "error")
          => /\ Last(written).action = "error"
             /\ Last(written).issue = cur[1].entry.issue
             /\ Last(written).id = ""
             /\ Last(written).comment = Join("; ", cur[1].json.errorMessages)

\* a run that ends by itself has decided on every WorkLog it took in and
\* has written a line for every decision
RunEndsComplete ==
    (pc = "sync" /\ pc' = "start")
    => /\ Len(done) = Len(entries)
       /\ Len(written) = Len(entries)
       /\ \A i \in 1..Len(entries) : done[i].entry = entries[i]
       /\ LinesFollowDecisions

\* C5: when the POST of a WorkLog is answered with a status >= 400 the
\* decision is 'error' and carries the body of the answer, its audit line has
\* an empty id field and the errorMessages of the body joined by '; ' as its
\* comment, and the run goes on: it ends only after every WorkLog, the later
\* ones too, has its decision and its audit line.
C5_ErrorIsRecordedAndRunGoesOn == []ErrorIsRecorded /\ [][RunEndsComplete]_vars

\* a run has come to the end of its WorkLogs with an 'error' decision
\* followed by an 'add', each with its audit line
C5_Witness ==
    /\ pc = "sync" /\ stage = "sync" /\ pos = Len(entries)
    /\ Len(written) = Len(done)
    /\ \E i, j \in 1..Len(done) :
          /\ i < j
          /\ done[i].action = "error"
          /\ written[i].id = ""
          /\ written[i].comment = "Issue C-9 Does Not Exist"
          /\ done[j].action = "add"
          /\ written[j].action = "add"

\* the lines of the run that are on the disk are the first of written, and
\* the buffer of f holds the rest
BufferFollowsDisk ==
    pc = "sync"
    => LET n == Len(written) - Len(fbuf)
       IN  /\ 0 <= n /\ n <= Len(jiralog)
           /\ fbuf = SubSeq(written, n + 1, Len(written))
           /\ SubSeq(jiralog, Len(jiralog) - n + 1, Len(jiralog))
                 = SubSeq(written, 1, n)

\* one step, as the audit log sees it
AuditStep ==
    /\ IsPrefix(jiralog, jiralog')
    /\ (pc = "sync" /\ pc' = "sync") =>
          IF stage = "log"
          THEN /\ stage' = "show"
               /\ Len(written') = Len(written) + 1
               /\ IsPrefix(written, written')
               /\ Last(written').issue = cur[1].entry.issue
               /\ Last(written').action = cur[1].action
               /\ cur' = cur
          ELSE written' = written
    /\ (pc = "sync" /\ pc' # "sync") =>
          LET n == Len(written) - Len(fbuf)
          IN  jiralog' = SubSeq(jiralog, 1, Len(jiralog) - n) \o written

\* C6: log_jira_sync adds one line for each decision, in the order of the
\* decisions, at the end of the audit log, and passes each decision on as it
\* got it; no step takes away, rewrites or reorders a line that is in the
\* log, so what the log held at any earlier moment is a prefix of what it
\* holds now, and when a run ends the log is what it was before the run
\* followed by the lines of the run.
C6_AuditLogIsAppendOnly ==
    [](BufferFollowsDisk /\ LinesFollowDecisions) /\ [][AuditStep]_vars

\* a second run has written two lines and more after the lines of the first
C6_Witness ==
    /\ pc = "sync" /\ stage = "sync" /\ pos = Len(entries)
    /\ runs = 2
    /\ Len(written) >= 2
    /\ Len(jiralog) + Len(fbuf) > Len(written)

\* the step of a process that ends in a ConfigurationError
ConfigErrorStep ==
    /\ runs' = runs + 1
    /\ Len(stdout') = 1
    /\ StartsWith(stdout'[1], "Error: ")

\* C7 as it is stated: when read_config fails with a ConfigurationError the
\* program prints one line 'Error: <message>', runs no stage of the pipeline
\* (no GET, no POST, no audit line) and the process exits with a status that
\* is not zero.
C7_ConfigErrorExitsNonZero ==
    [][ConfigErrorStep
       => /\ PrintedLines(stdout'[1]) = 1
          /\ remote' = remote
          /\ posts' = posts
          /\ jiralog' = jiralog
          /\ pc' = "start"
          /\ exit_status' # <<>>
          /\ exit_status'[1] # 0]_vars

\* the entries of the time log whose note ends with the non-work marker
NonWorkEntries ==
    {e \in SetOf(read_timelog(timelog, Midnight)) : EndsWith(e.message, "**")}

\* a run is at its start: nothing taken from entries yet
RunAtStart == pc = "sync" /\ stage = "sync" /\ pos = 0 /\ group = <<>>

\* C10: an entry whose note ends with '**' never yields a WorkLog, whether
\* its note holds an issue token or an alias or not and whatever the include
\* set; so no decision is made, no POST is made and no audit line is written
\* for it.
C10_NonWorkEntryIsNeverSynced ==
    /\ RunAtStart =>
          \A c \in ParseConfigs :
              \A w \in SetOf(parse_timelog(read_timelog(timelog, Midnight),
                                           Projects, c.aliases, c.include)) :
                  ~EndsWith(w.entry.message, "**")
    /\ \A i \in 1..Len(done) : ~EndsWith(done[i].entry.entry.message, "**")
    /\ \A i \in 1..Len(posts) : ~EndsWith(posts[i].entry.entry.message, "**")
    /\ written # <<>> =>
          /\ LinesFollowDecisions
          /\ \A e \in NonWorkEntries :
                \A i \in 1..Len(written) :
                    written[i].start # IsoFormat(e.start, Minute)

\* a run that POSTs has gone through a day of the time log that holds a
\* non-work entry of positive length whose note names an issue of the
\* include set, and has decided on the three other entries of the day
C10_Witness ==
    /\ pc = "sync" /\ stage = "sync" /\ pos = Len(entries)
    /\ ~args.dry_run
    /\ Len(done) = 3
    /\ Len(written) = 3
    /\ \E e \in NonWorkEntries :
          /\ e.start.ts < e.end.ts
          /\ StartsWith(e.message, "F-1")
          /\ \E i \in 1..Len(done) : done[i].entry.start.ts < e.start.ts
          /\ \E i \in 1..Len(done) : done[i].entry.start.ts > e.start.ts

\* ------------------------------------------------------------------------
\* read_timelog line by line, on every time log of at most MaxLines lines
\* drawn from LineChoices and every virtual midnight of Midnights
\* ------------------------------------------------------------------------
LineChoices ==
    {BlankLine, BadLine}
    \cup {StampLine(d, h, 0, n) :
            d \in {D0, D0 + 1}, h \in {5, 7}, n \in {"F-1 x", "F-1 **"}}
    \cup {StampLine(D0, 9, 0, "B-2 y")}

Midnights == {"06:00", "00:00", "07:00"}

RECURSIVE TimeLogs(_)
TimeLogs(n) ==
    IF n = 0 THEN {<<>>}
    ELSE LET shorter == TimeLogs(n - 1)
         IN  shorter \cup {Append(t, l) : t \in shorter, l \in LineChoices}

InitReader ==
    /\ ProgramInit
    /\ remote = [i \in {"B-2", "F-1"} |-> <<>>]
    /\ f \in TimeLogs(MaxLines)
    /\ midnight \in Midnights
    /\ line_no = 0
    /\ reader = ReaderInit
    /\ emitted = <<>>
    /\ ParserIdle
    /\ FilterIdle
    /\ AuthIdle

\* the loop body of read_timelog for the next line of f
ReadStep ==
    /\ line_no < Len(f)
    /\ LET r == ReadLine(reader, f[line_no + 1], midnight)
       IN  /\ reader' = r.st
           /\ emitted' = emitted \o r.out
    /\ line_no' = line_no + 1
    /\ UNCHANGED <<f, midnight, env_vars, run_vars, parser_vars, filter_vars, auth_vars>>

\* f is exhausted: the statement after the loop, and read_timelog returns
ReadStop ==
    /\ line_no = Len(f)
    /\ emitted' = emitted \o ReadEnd(reader)
    /\ line_no' = line_no + 1
    /\ UNCHANGED <<f, midnight, reader, env_vars, run_vars, parser_vars,
                   filter_vars, auth_vars>>

NextReader == ReadStep \/ ReadStop

SpecReader == InitReader /\ [][NextReader]_vars

\* ------------------------------------------------------------------------
\* Properties of read_timelog, on the behaviours of SpecReader
\* ------------------------------------------------------------------------
\* the lines of f read_timelog has consumed
Consumed == SubSeq(f, 1, IF line_no > Len(f) THEN Len(f) ELSE line_no)

\* read_timelog has returned
ReadOver == line_no = Len(f) + 1

\* the timestamp lines among lines, in their order
StampsOf(lines) == SelectSeq(lines, LAMBDA l : l.kind = "stamp")

\* the instant a timestamp line names
TimeOf(l) == LocalTime(l.date, l.hour, l.minute)

\* some timestamp line of lines is earlier than the timestamp line before it
GoesBack(lines) ==
    LET st == StampsOf(lines)
    IN  \E k \in 2..Len(st) : TimeOf(st[k]).ts < TimeOf(st[k - 1]).ts

\* an entry that starts after it ends has been emitted
SomeStartAfterEnd ==
    \E i \in 1..Len(emitted) : emitted[i].start.ts > emitted[i].end.ts

\* C8 as it is stated: read_timelog never emits an Entry whose start is
\* after its end, for any log of well-formed lines.
C8_StartNeverAfterEnd == ~SomeStartAfterEnd

\* C8, amended: read_timelog emits an Entry whose start is after its end
\* exactly when a timestamp line of the log is earlier than the timestamp
\* line before it; for a log whose timestamps never go back no emitted Entry
\* has start > end.
C8_StartAfterEndIffLogGoesBack == SomeStartAfterEnd <=> GoesBack(Consumed)

\* a log of two or more timestamps that never go back has been read to its
\* end and has given an entry of positive length
C8_Witness ==
    /\ ReadOver
    /\ Len(StampsOf(f)) >= 2
    /\ ~GoesBack(f)
    /\ \E i \in 1..Len(emitted) : emitted[i].start.ts < emitted[i].end.ts

\* The end of the virtual day an instant lies in: the first virtual midnight
\* after it, on the wall clock of the instant.
VirtualDayEnd(t, mid) ==
    LET m == MidnightOf(mid)
        shift == m.hour * Hour + m.minute * Minute
        wall == t.ts + t.off
    IN  DateTime(wall - ((wall - shift) % Day) + Day - t.off, t.off)

\* the index in st of the timestamp line that opens the virtual day line k
\* of st is counted in
RECURSIVE AnchorOf(_, _, _)
AnchorOf(st, k, mid) ==
    IF k = 1 THEN 1
    ELSE LET a == AnchorOf(st, k - 1, mid)
         IN  IF TimeOf(st[k]).ts >= VirtualDayEnd(TimeOf(st[a]), mid).ts
             THEN k ELSE a

\* parse_timelog yields no WorkLog for the entry, whatever the configuration
NeverWorkLog(entry) ==
    \A c \in ParseConfigs :
        parse_timelog(<<entry>>, Projects, c.aliases, c.include) = <<>>

\* One step of the reader, for the virtual days of a single timestamp line.
\* k is the last timestamp line consumed before the step.
SingleLineDayStep ==
    LET st == StampsOf(Consumed)
        k == Len(st)
        alone == k >= 1 /\ AnchorOf(st, k, midnight) = k
        marker == Entry(TimeOf(st[k]), TimeOf(st[k]), st[k].note)
        atEnd == line_no = Len(f)
        line == f[line_no + 1]
        opensDay == /\ ~atEnd
                    /\ line.kind = "stamp"
                    /\ \/ k = 0
                       \/ AnchorOf(Append(st, line), k + 1, midnight) = k + 1
    IN  /\ (alone /\ (atEnd \/ opensDay))
              => /\ emitted' = Append(emitted, marker)
                 /\ NeverWorkLog(marker)
        /\ (opensDay /\ ~alone) => emitted' = emitted
        /\ (~atEnd /\ line.kind # "stamp") => emitted' = emitted

\* C9: for a virtual day that holds exactly one timestamp line, read_timelog
\* emits exactly one Entry(t, t, note) of zero length, when the day is closed
\* by the first line of the next day or by the end of the file and at no
\* other line, and parse_timelog yields no WorkLog for that Entry whatever
\* its note.
C9_SingleLineDayGivesOneIdleMarker == [][SingleLineDayStep]_vars

\* two days of one line each have been read, the first closed by the second
\* and the second by the end of the file; the notes name an issue
C9_Witness ==
    /\ ReadOver
    /\ LET st == StampsOf(f)
       IN  /\ Len(st) = 2
           /\ AnchorOf(st, 2, midnight) = 2
           /\ st[1].note = "F-1 x"
           /\ emitted = <<Entry(TimeOf(st[1]), TimeOf(st[1]), st[1].note),
                          Entry(TimeOf(st[2]), TimeOf(st[2]), st[2].note)>>

\* the step over a line that is blank or not of the shape
\* '<YYYY-MM-DD HH:MM>: <note>' leaves last, last_note, nextday and entries
\* as they are and yields nothing
SkippedLineStep ==
    (line_no < Len(f) /\ f[line_no + 1].kind # "stamp")
    => reader' = reader /\ emitted' = emitted

\* what read_timelog has given for f is what it gives for the timestamp
\* lines of f alone
SameAsWithoutSkipped == ReadOver => emitted = read_timelog(StampsOf(f), midnight)

\* C21: a blank line and a line that is not of the shape
\* '<YYYY-MM-DD HH:MM>: <note>' are passed over without a change of the
\* reader's state (last timestamp, last note, day boundary, interval
\* counter), and the output of read_timelog is its output on the same input
\* without those lines.
C21_SkippedLinesChangeNothing == []SameAsWithoutSkipped /\ [][SkippedLineStep]_vars

\* a log with a malformed line between two timestamp lines has been read
\* and has given the interval between the two
C21_Witness ==
    /\ ReadOver
    /\ Len(f) = 3
    /\ f[1].kind = "stamp" /\ f[2].kind = "bad" /\ f[3].kind = "stamp"
    /\ TimeOf(f[1]).ts < TimeOf(f[3]).ts
    /\ emitted = <<Entry(TimeOf(f[1]), TimeOf(f[3]), f[3].note)>>

\* What the loop is to yield over the first k timestamp lines st, told from
\* the virtual days of the lines: a line that opens a day closes no
\* interval (it yields the marker of the day before, if that day has one
\* line), every other line yields the interval from the line before it,
\* with its own note.
RECURSIVE IntervalsUpTo(_, _, _)
IntervalsUpTo(st, k, mid) ==
    IF k = 0 THEN <<>>
    ELSE LET before == IntervalsUpTo(st, k - 1, mid)
         IN  IF AnchorOf(st, k, mid) # k
             THEN Append(before,
                         Entry(TimeOf(st[k - 1]), TimeOf(st[k]), st[k].note))
             ELSE IF k > 1 /\ AnchorOf(st, k - 1, mid) = k - 1
             THEN Append(before,
                         Entry(TimeOf(st[k - 1]), TimeOf(st[k - 1]),
                               st[k - 1].note))
             ELSE before

\* the entries yielded so far are those of the virtual days of the lines
\* consumed; the last of them is the marker of the last day once the file
\* has ended, if that day has one line
OneEntryPerPairOfADay ==
    LET st == StampsOf(Consumed)
        k == Len(st)
        loop == IntervalsUpTo(st, k, midnight)
    IN  emitted = IF ReadOver /\ k > 0 /\ AnchorOf(st, k, midnight) = k
                  THEN Append(loop, Entry(TimeOf(st[k]), TimeOf(st[k]), st[k].note))
                  ELSE loop

\* no entry yielded has its two ends in different virtual days
NoEntryAcrossDays ==
    \A i \in 1..Len(emitted) :
        VirtualDayEnd(emitted[i].start, midnight)
           = VirtualDayEnd(emitted[i].end, midnight)

\* C22 as it is stated: within a virtual day of the lines t0 .. tn, n >= 1,
\* read_timelog yields exactly the n entries Entry(t(i-1), t(i), note(i));
\* the first line of a day closes no interval, a line at or after the
\* boundary of the current day opens a new day, and so no Entry spans two
\* virtual days.
C22_OneEntryPerPairNoneAcrossDays == OneEntryPerPairOfADay /\ NoEntryAcrossDays

\* C22, amended: as above, a virtual day being the lines from one that is
\* at or after the boundary of the day before up to the next such line; no
\* Entry spans two virtual days when the timestamps of the log never go
\* back.  A line earlier than the line before it is before the boundary
\* and is counted in the current day: its Entry runs from the later to the
\* earlier instant and may end in an earlier virtual day.
C22_OneEntryPerPairNoneAcrossDaysInOrder ==
    /\ OneEntryPerPairOfADay
    /\ ~GoesBack(Consumed) => NoEntryAcrossDays

\* with the virtual midnight at 07:00, the lines 05:00, 07:00 and 09:00 of
\* one date have been read: the line at the boundary opened a day and closed
\* no interval, the third line closed the interval from the second
C22_Witness ==
    /\ ReadOver
    /\ midnight = "07:00"
    /\ Len(f) = 3
    /\ \A k \in 1..3 : f[k].kind = "stamp" /\ f[k].date = D0
    /\ f[1].hour = 5 /\ f[2].hour = 7 /\ f[3].hour = 9
    /\ emitted = <<Entry(TimeOf(f[1]), TimeOf(f[1]), f[1].note),
                   Entry(TimeOf(f[2]), TimeOf(f[3]), f[3].note)>>

\* the entries of positive length yielded so far, in their order
PositiveEntries == SelectSeq(emitted, LAMBDA e : e.start.ts < e.end.ts)

\* each of them starts at or after the end of those before it
OneAfterAnother ==
    \A i, j \in 1..Len(PositiveEntries) :
        i < j => PositiveEntries[i].end.ts <= PositiveEntries[j].start.ts

\* no two WorkLogs parse_timelog makes of the entries have the same issue,
\* start and end, whatever the configuration
WorkLogsDiffer ==
    \A c \in ParseConfigs :
        LET w == parse_timelog(emitted, Projects, c.aliases, c.include)
        IN  \A i, j \in 1..Len(w) :
                i # j => \/ w[i].issue # w[j].issue
                         \/ w[i].start # w[j].start
                         \/ w[i].end # w[j].end

\* C27: for a log whose timestamps never go back, the entries of positive
\* length read_timelog yields do not overlap in time, each starts at or
\* after the end of the one before it; so no two WorkLogs of a run have the
\* same issue, start and end, and sync_with_jira, which makes one decision
\* for each WorkLog, never creates two worklogs for the same issue and
\* interval in a run, though it fetches the worklogs of an issue only once.
C27_EntriesOfOrderedLogDoNotOverlap ==
    ~GoesBack(Consumed)
    => /\ OneAfterAnother
       /\ ReadOver => WorkLogsDiffer

\* the lines 05:00, 07:00 and 09:00 of one date, in a day that starts at
\* 00:00, have given two entries of positive length, the second from the
\* end of the first, and a WorkLog each
C27_Witness ==
    /\ ReadOver
    /\ ~GoesBack(f)
    /\ Len(PositiveEntries) = 2
    /\ PositiveEntries[1].end = PositiveEntries[2].start
    /\ Len(parse_timelog(emitted, Projects, <<>>, {})) = 2

\* ------------------------------------------------------------------------
\* parse_timelog entry by entry, on every sequence of at most MaxEntries
\* entries drawn from ParseEntries and every configuration of ParseProjects,
\* AliasTables and IncludeSets
\* ------------------------------------------------------------------------
ParseNotes ==
    {"x", "F-1 B-2 x", "fb B-2", "p: fb more", "p: F-1 w F-1", "F-1-r x",
     "fb-2 y", "a b", "no: go", "B-2 **"}

\* an entry of n seconds with the note
Spanning(n, note) ==
    Entry(LocalTime(D0, 10, 0), Plus(LocalTime(D0, 10, 0), n), note)

\* half an hour with each note, and a note in no time and in time that runs
\* back
ParseEntries ==
    {Spanning(30 * Minute, note) : note \in ParseNotes}
    \cup {Spanning(0, "F-1 z"), Spanning(-(30 * Minute), "F-1 z")}

ParseProjects == {<<"F", "B">>, <<"B">>}

\* [gtimelog2jira:aliases], in the order of the file: none; an alias that
\* is the head of another; an alias that starts like an issue of a project,
\* an alias for an alias and an alias with nothing after the '='
AliasTables ==
    {<<>>,
     <<Alias("fb", "F-1"), Alias("fb-2", "B-2")>>,
     <<Alias("F-1-r", "B-2"), Alias("a", "fb"), Alias("fb", "F-1"),
       Alias("no", "")>>}

IncludeSets == {{}, {"B-2"}}

RECURSIVE EntryLists(_)
EntryLists(n) ==
    IF n = 0 THEN {<<>>}
    ELSE LET shorter == EntryLists(n - 1)
         IN  shorter \cup {Append(t, e) : t \in shorter, e \in ParseEntries}

InitParse ==
    /\ ProgramInit
    /\ remote = [i \in {"B-2", "F-1"} |-> <<>>]
    /\ ReaderIdle
    /\ FilterIdle
    /\ AuthIdle
    /\ pt_entries \in EntryLists(MaxEntries)
    /\ pt_projects \in ParseProjects
    /\ pt_aliases \in AliasTables
    /\ pt_include \in IncludeSets
    /\ pt_pos = 0
    /\ pt_yielded = <<>>

\* the loop body of parse_timelog for the next entry
ParseStep ==
    /\ pt_pos < Len(pt_entries)
    /\ pt_yielded' = pt_yielded \o ParseEntry(pt_entries[pt_pos + 1], pt_projects,
                                              pt_aliases, pt_include)
    /\ pt_pos' = pt_pos + 1
    /\ UNCHANGED <<pt_entries, pt_projects, pt_aliases, pt_include, env_vars,
                   run_vars, reader_vars, filter_vars, auth_vars>>

NextParse == ParseStep

SpecParse == InitParse /\ [][NextParse]_vars

\* what filter_timelog hands to sync_with_jira in this run, before the sort
Unsorted ==
    filter_timelog(
        parse_timelog(read_timelog(timelog, Midnight), Projects, Aliases, {}),
        args.since, args.until,
        IF args.issue = <<>> THEN <<>>
        ELSE <<IF \E i \in 1..Len(Aliases) : Aliases[i].alias = args.issue[1]
               THEN Aliases[CHOOSE i \in 1..Len(Aliases) :
                               Aliases[i].alias = args.issue[1]].issue
               ELSE args.issue[1]>>,
        now)

\* list is a rearrangement of original by issue, ascending, that keeps the
\* order of the WorkLogs of one issue
StableByIssue(list, original) ==
    /\ Len(list) = Len(original)
    /\ \A k \in 1..(Len(list) - 1) : ~StrLess(list[k + 1].issue, list[k].issue)
    /\ \A i \in {original[k].issue : k \in 1..Len(original)} :
          SelectSeq(list, LAMBDA w : w.issue = i)
             = SelectSeq(original, LAMBDA w : w.issue = i)

\* the issues of the WorkLogs sync_with_jira has reached: those it has
\* decided on and the one it takes next
IssuesReached ==
    {entries[k].issue : k \in 1..(IF pos < Len(entries) THEN pos + 1 ELSE pos)}

\* the decisions of the run so far, one for each WorkLog taken, in the order
\* of the sorted WorkLogs, and the GETs made for them
DecisionsInOrder ==
    /\ RunAtStart => StableByIssue(entries, Unsorted)
    /\ Len(done) = pos
    /\ \A k \in 1..Len(done) :
          /\ done[k].entry = entries[k]
          /\ done[k].action \in {"add", "overlap", "error", "add (dry run)"}
          /\ done[k].entry.issue \in SetOf(gets)
    /\ \A a, b \in 1..Len(gets) : a # b => gets[a] # gets[b]
    /\ SetOf(gets) \subseteq IssuesReached

\* a run that ends by itself has a decision for each of its WorkLogs
AllDecidedAtEnd == (pc = "sync" /\ pc' = "start") => Len(done) = Len(entries)

\* C19: sync_with_jira yields one decision for each WorkLog it is given,
\* with an action among add, overlap, error and add (dry run); the decisions
\* come ordered by issue id ascending and, within an issue, in the order the
\* WorkLogs came in; in a run the worklogs of an issue are fetched once, and
\* before the first decision of the issue.
C19_OneDecisionPerWorkLogInIssueOrder ==
    []DecisionsInOrder /\ [][AllDecidedAtEnd]_vars

\* a run over both days has decided on four WorkLogs, the two of F-1 last
\* and in the order of the time log, where F-1 came first, with three GETs
C19_Witness ==
    /\ pc = "sync" /\ stage = "sync" /\ pos = Len(entries)
    /\ Len(done) = 4
    /\ gets = <<"B-2", "C-9", "F-1">>
    /\ done[3].entry.issue = "F-1" /\ done[4].entry.issue = "F-1"
    /\ done[3].entry.start.ts < done[4].entry.start.ts
    /\ done[3].entry.start.ts < done[1].entry.start.ts
    /\ \E i, j \in 1..4 : done[i].action # done[j].action

\* a dry run has made all its decisions, and the run before it that ended
\* by itself was a dry run on the same time log with the same command line
\* and found the tracker as this one does
SecondDryRunOver ==
    /\ pc = "sync" /\ stage = "sync" /\ pos = Len(entries)
    /\ args.dry_run
    /\ last_run # <<>>
    /\ last_run[1].args = args
    /\ last_run[1].timelog = timelog
    /\ last_run[1].remote = remote

RecordsInside(e) ==
    IF e.issue \notin DOMAIN remote THEN {}
    ELSE {k \in 1..Len(remote[e.issue]) :
            LET r == remote[e.issue][k]
                start == r.started.wall - r.started.off
            IN  /\ start >= e.start.ts
                /\ start + r.timeSpentSeconds <= e.end.ts}

\* those of them the current user is the author of
MineInside(e) ==
    {k \in RecordsInside(e) : remote[e.issue][k].author.accountId = Me}

\* The step in which sync_with_jira decides on a WorkLog: it is 'overlap'
\* only if a record of the current user lies inside the interval, and if the
\* records inside are all of other users the WorkLog is created, or shown as
\* add (dry run).
OthersIgnoredStep ==
    (pc = "sync" /\ stage = "sync" /\ stage' = "log")
    => LET e == entries[pos + 1]
           action == cur'[1].action
       IN  /\ action = "overlap" => MineInside(e) # {}
           /\ (RecordsInside(e) # {} /\ MineInside(e) = {})
              => /\ action = (IF args.dry_run THEN "add (dry run)" ELSE "add")
                 /\ ~args.dry_run
                    => /\ Len(posts') = Len(posts) + 1
                       /\ Last(posts').entry = e
                       /\ Len(remote'[e.issue]) = Len(remote[e.issue]) + 1

\* C23: the records of the tracker whose author's account id is not the
\* current user's are ignored: they never make a WorkLog 'overlap', and a
\* WorkLog whose interval holds records of other users only is created, or
\* shown as add (dry run).
C23_OtherUsersRecordsAreIgnored == [][OthersIgnoredStep]_vars

\* the WorkLog of B-2 has been created though the tracker held somebody
\* else's record of the very same interval
C23_Witness ==
    /\ pc = "sync" /\ stage = "log"
    /\ cur[1].action = "add"
    /\ cur[1].entry.issue = "B-2"
    /\ \E k \in RecordsInside(cur[1].entry) :
          /\ remote["B-2"][k].author.accountId = Other
          /\ remote["B-2"][k].timeSpentSeconds = cur[1].entry.seconds
    /\ Len(remote["B-2"]) = 2

\* the audit log file ends with the lines log_jira_sync has written, and
\* passed the decisions of, in this run
WrittenLinesAreInTheFile ==
    /\ Len(jiralog) >= Len(written)
    /\ SubSeq(jiralog, Len(jiralog) - Len(written) + 1, Len(jiralog)) = written

\* C24 as it is stated: each audit line is written and flushed as a whole
\* when its decision is processed, so wherever the run can be interrupted
\* the audit log file holds whole lines only and holds the line of every
\* decision log_jira_sync has passed on to show_results.
C24_EveryLinePassedOnIsInTheFile == pc = "sync" => WrittenLinesAreInTheFile

\* the POSTs of this run that the tracker answered with a created record
CreatedInThisRun ==
    SelectSeq(posts, LAMBDA p : p.run = runs /\ p.status_code < 400)

\* the lines with the action 'add' given to f.write() in this run
AddLines == SelectSeq(written, LAMBDA l : l.action = "add")

\* at the first GET of a run the time log has been read, classified and
\* filtered to its end: the list worked on holds every WorkLog of it
AllReadBeforeFirstFetch ==
    (pc = "sync" /\ Len(gets) = 1 /\ pos = 0) => StableByIssue(entries, Unsorted)

\* every 'add' line written is the line of a POST of this run that has
\* been answered with a created record, in the order of the POSTs, and at
\* most one such POST has no line yet
AddLinesFollowCreates ==
    pc = "sync"
    => /\ Len(AddLines) <= Len(CreatedInThisRun)
       /\ Len(CreatedInThisRun) <= Len(AddLines) + 1
       /\ \A k \in 1..Len(AddLines) :
             /\ AddLines[k].id = CreatedInThisRun[k].resp.id
             /\ AddLines[k].issue = CreatedInThisRun[k].issue
             /\ AddLines[k].start = IsoFormat(CreatedInThisRun[k].entry.start, Minute)

\* a GET or a POST is made only when the line of every decision made so far
\* has been written, and the line written in a step is the line of the last
\* decision, made in an earlier step
OneEntryAtATimeStep ==
    /\ (gets' # gets /\ pc' = "sync") => Len(written) = Len(done)
    /\ posts' # posts => Len(written) = Len(done)
    /\ (written' # written /\ pc' = "sync")
       => /\ Len(written') = Len(done)
          /\ done' = done /\ posts' = posts /\ gets' = gets
          /\ Last(written').issue = Last(done).entry.issue
          /\ Last(written').action = Last(done).action

\* C26: in a run the time log is read, classified and filtered to its end
\* before the first GET of worklogs; from then on the effects go entry by
\* entry: the POST for an entry, if there is one, has been answered before
\* the line of the entry is given to f.write(), and that line is written
\* before any GET or POST for the next entry.  So a line with the action
\* 'add' is written only for a POST that has succeeded, and at most one
\* successful POST at a time has no line written for it.
C26_EffectsGoEntryByEntry ==
    /\ [](AllReadBeforeFirstFetch /\ AddLinesFollowCreates)
    /\ [][OneEntryAtATimeStep]_vars

\* the second WorkLog of a run has been created after the line of the first
\* was written, and has no line yet
C26_Witness ==
    /\ pc = "sync" /\ stage = "log"
    /\ Len(CreatedInThisRun) = 2
    /\ Len(AddLines) = 1
    /\ Len(done) = 2 /\ Len(written) = 1
    /\ Len(gets) = 2

\* ------------------------------------------------------------------------
\* filter_timelog WorkLog by WorkLog, on every list of at most MaxWorkLogs
\* WorkLogs, with since, until and issue given or not
\* ------------------------------------------------------------------------
\* an hour of work on a day, and half an hour over the midnight after it
HourOn(date, issue) ==
    WorkLog(Entry(LocalTime(date, 10, 0), LocalTime(date, 11, 0), issue \o " x"),
            issue, "x")

OverMidnight(date, issue) ==
    WorkLog(Entry(LocalTime(date, 23, 45), LocalTime(date + 1, 0, 15),
                  issue \o " y"),
            issue, "y")

FilterWorkLogs ==
    {HourOn(D0, "F-1"), OverMidnight(D0, "B-2"), HourOn(D0 + 1, "B-2"),
     HourOn(D0 + 2, "F-1")}

RECURSIVE WorkLogLists(_)
WorkLogLists(n) ==
    IF n = 0 THEN {<<>>}
    ELSE LET shorter == WorkLogLists(n - 1)
         IN  shorter \cup {Append(l, w) : l \in {x \in shorter : Len(x) = n - 1},
                                          w \in FilterWorkLogs}

\* --since and --until as Date() gives them, or None
SinceChoices == {<<>>, DateArg(D0), DateArg(D0 + 1)}

UntilChoices == {<<>>, DateArg(D0 + 1), DateArg(D0 + 2)}

\* aliases.get(args.issue, args.issue) for no --issue, --issue '' and
\* --issue F-1
IssueChoices == {<<>>, <<"">>, <<"F-1">>}

\* the clock: six days after the first day, and two days later
NowChoices == {Now0, Plus(Now0, 2 * Day)}

InitFilter ==
    /\ ProgramInit
    /\ remote = [i \in {"B-2", "F-1"} |-> <<>>]
    /\ ReaderIdle
    /\ ParserIdle
    /\ AuthIdle
    /\ ft_entries \in WorkLogLists(MaxWorkLogs)
    /\ ft_since \in SinceChoices
    /\ ft_until \in UntilChoices
    /\ ft_issue \in IssueChoices
    /\ ~EmptyInterval(Args(FALSE, ft_since, ft_until, ft_issue))
    /\ ft_now \in NowChoices
    /\ ft_pos = 0
    /\ ft_yielded = <<>>

\* one pass of the loop of filter_timelog
FilterStep ==
    /\ ft_pos < Len(ft_entries)
    /\ LET entry == ft_entries[ft_pos + 1]
           since == DefaultSince(ft_since, ft_issue, ft_now)
       IN  ft_yielded' = IF Kept(entry, since, ft_until, ft_issue)
                         THEN Append(ft_yielded, entry)
                         ELSE ft_yielded
    /\ ft_pos' = ft_pos + 1
    /\ UNCHANGED <<ft_entries, ft_since, ft_until, ft_issue, ft_now,
                   env_vars, run_vars, reader_vars, parser_vars,
                   auth_vars>>

NextFilter == FilterStep

SpecFilter == InitFilter /\ [][NextFilter]_vars

\* ------------------------------------------------------------------------
\* read_config: the password and GET /myself, for every configured and
\* saved password, every entered one and every run of answers
\* ------------------------------------------------------------------------
\* attempts = range(3)
MaxAttempts == 3

\* the passwords configured, saved and typed
Passwords == {"secret", "wrong"}

\* the system keyring: without a backend every call raises NoKeyringError
Keyrings ==
    {[backend |-> FALSE, saved |-> <<>>]}
    \cup {[backend |-> TRUE, saved |-> s] :
              s \in {<<>>} \cup {<<p>> : p \in Passwords}}

\* keyring.get_password(url, username), "" for None and for NoKeyringError
\* (password stays as it was, and it was falsy)
GetPassword(keyring) ==
    IF keyring.backend /\ keyring.saved # <<>> THEN keyring.saved[1] ELSE ""

\* keyring.set_password(url, username, password) inside try/except
SetPassword(keyring, password) ==
    IF keyring.backend THEN [keyring EXCEPT !.saved = <<password>>]
    ELSE keyring

\* keyring.delete_password(url, username) inside try/except
DeletePassword(keyring) ==
    IF keyring.backend THEN [keyring EXCEPT !.saved = <<>>] ELSE keyring

\* resp.ok
Ok(status_code) == status_code < 400

IncorrectPassword == "Error: Incorrect password or username."

NoPermission ==
    "Jira credentials seems to be correct, but this user does not have permission to log in.\nTry to log in via browser, maybe you need to answer a security question: "

WentWrong == "Something went wrong, Jira gave status code."

InitAuth ==
    /\ ProgramInit
    /\ remote = [i \in {"B-2", "F-1"} |-> <<>>]
    /\ ReaderIdle
    /\ ParserIdle
    /\ FilterIdle
    /\ au_password \in {""} \cup Passwords
    /\ au_keyring \in Keyrings
    /\ au_typed \in [1..MaxAttempts -> Passwords]
    /\ au_answers \in [1..MaxAttempts -> {200, 401, 403, 500}]
    /\ au_attempt = 0
    /\ au_prompts = 0
    /\ au_requests = <<>>
    /\ au_resp = 0
    /\ au_pc = "keyring"
    /\ au_error = ""

\* if not password: password = keyring.get_password(url, username)
AuthLookup ==
    /\ au_pc = "keyring"
    /\ au_password' = IF au_password = "" THEN GetPassword(au_keyring)
                      ELSE au_password
    /\ au_pc' = "loop"
    /\ UNCHANGED <<au_keyring, au_typed, au_answers, au_attempt, au_prompts,
                   au_requests, au_resp, au_error,
                   env_vars, run_vars, reader_vars, parser_vars, filter_vars>>

\* One pass of 'for attempt in attempts': the prompt and the save if there
\* is no password or this is not the first pass, GET /myself, and the branch
\* of its status code.  Every branch leaves the loop, by break or by raise,
\* so attempt is never advanced and the loop never runs out.
AuthAttempt ==
    /\ au_pc = "loop"
    /\ au_attempt < MaxAttempts
    /\ LET ask == au_attempt > 0 \/ au_password = ""
           password == IF ask THEN au_typed[au_prompts + 1] ELSE au_password
           keyring == IF ask THEN SetPassword(au_keyring, password)
                      ELSE au_keyring
           status_code == au_answers[Len(au_requests) + 1]
       IN  /\ au_password' = password
           /\ au_prompts' = IF ask THEN au_prompts + 1 ELSE au_prompts
           /\ au_requests' = Append(au_requests, password)
           /\ au_resp' = status_code
           /\ IF Ok(status_code)
              THEN /\ au_pc' = "returned"
                   /\ au_error' = ""
                   /\ au_keyring' = keyring
              ELSE IF status_code = 401
              THEN /\ au_pc' = "raised"
                   /\ au_error' = IncorrectPassword
                   /\ au_keyring' = DeletePassword(keyring)
              ELSE IF status_code = 403
              THEN /\ au_pc' = "raised"
                   /\ au_error' = NoPermission
                   /\ au_keyring' = keyring
              ELSE /\ au_pc' = "raised"
                   /\ au_error' = WentWrong
                   /\ au_keyring' = keyring
    /\ UNCHANGED <<au_typed, au_answers, au_attempt,
                   env_vars, run_vars, reader_vars, parser_vars, filter_vars>>

NextAuth == AuthLookup \/ AuthAttempt

SpecAuth == InitAuth /\ [][NextAuth]_vars

\* ------------------------------------------------------------------------
\* Properties of the password part of read_config, on the behaviours of
\* SpecAuth
\* ------------------------------------------------------------------------
\* C25: when GET /myself answers 401, read_config asks for a password again
\* and repeats the request, and fails with the authentication error only
\* when MaxAttempts requests in all have been answered 401.
C25_AuthErrorOnlyAfterAllAttempts ==
    (au_pc = "raised" /\ au_error = IncorrectPassword)
    => /\ Len(au_requests) = MaxAttempts
       /\ au_prompts >= MaxAttempts - 1
       /\ \A k \in 1..Len(au_requests) : au_answers[k] = 401

\* what does hold: the authentication error follows the first 401 at once,
\* after one request, and the saved password is gone
FirstAnswerDecides ==
    au_pc \in {"returned", "raised"}
    => /\ Len(au_requests) = 1
       /\ au_attempt = 0
       /\ au_prompts <= 1
       /\ au_resp = au_answers[1]
       /\ (au_error = IncorrectPassword) = (au_resp = 401)
       /\ (au_resp = 401 => au_keyring.saved = <<>>)

\* ------------------------------------------------------------------------
\* Properties of parse_timelog, on the behaviours of SpecParse
\* ------------------------------------------------------------------------
\* the entries parse_timelog has consumed
ParsedSoFar == SubSeq(pt_entries, 1, pt_pos)

\* the matches of the pattern in a note, left to right
TokensOf(note) == FindIter(note, 1, pt_projects, SortedAliases(pt_aliases))

\* the alias tokens of the table and the ids they stand for
AliasKeys == {pt_aliases[i].alias : i \in 1..Len(pt_aliases)}

AliasValues == {pt_aliases[i].issue : i \in 1..Len(pt_aliases)}

\* the canonical id of a token: what the table gives for an alias, the token
\* itself otherwise
CanonicalOf(token) ==
    IF token \in AliasKeys
    THEN LET i == CHOOSE k \in 1..Len(pt_aliases) : pt_aliases[k].alias = token
         IN  pt_aliases[i].issue
    ELSE token

\* the first match of the note, left to right, whose canonical id the
\* include set lets through: <<[token, issue]>>, or <<>> if there is none
AcceptedMatch(note) ==
    LET ms == TokensOf(note)
        ok == {k \in 1..Len(ms) :
                  pt_include = {} \/ CanonicalOf(ms[k]) \in pt_include}
    IN  IF ok = {} THEN <<>>
        ELSE LET k == CHOOSE x \in ok : \A y \in ok : x <= y
             IN  <<[token |-> ms[k], issue |-> CanonicalOf(ms[k])]>>

\* the entries that are to give a WorkLog: work, with an accepted match, of
\* positive length
Yielding(list) ==
    SelectSeq(list,
              LAMBDA e : /\ ~EndsWith(e.message, "**")
                         /\ AcceptedMatch(e.message) # <<>>
                         /\ e.start.ts < e.end.ts)

\* C11: parse_timelog gives an entry the canonical (alias-resolved) id of
\* the first match of its note, left to right, whose canonical id is in the
\* include set (of the first match when the include set is empty); matches
\* whose canonical id is not in the include set are passed over, and an
\* entry with no accepted match gives no WorkLog.
C11_FirstIncludedMatchGivesTheIssue ==
    LET expected == Yielding(ParsedSoFar)
    IN  /\ Len(pt_yielded) = Len(expected)
        /\ \A k \in 1..Len(expected) :
              /\ pt_yielded[k].entry = expected[k]
              /\ pt_yielded[k].issue = AcceptedMatch(expected[k].message)[1].issue

\* an entry whose first match is not in the include set and whose second
\* is has given a WorkLog for the second, and an entry with a match that is
\* not in the include set has given none
C11_Witness ==
    /\ pt_pos = 2
    /\ pt_include = {"B-2"}
    /\ pt_projects = <<"F", "B">>
    /\ pt_entries[1].message = "F-1 B-2 x"
    /\ pt_entries[2].message = "p: fb more"
    /\ pt_aliases # <<>>
    /\ Len(pt_yielded) = 1
    /\ pt_yielded[1].issue = "B-2"

\* the alias a is in the note at i as a whole token
WholeAliasAt(note, i, a) ==
    /\ LiteralEnd(note, i, a) # 0
    /\ WordBoundary(note, i)
    /\ WordBoundary(note, i + Len(a))

\* where the matches of the pattern start in the note, from index i on
RECURSIVE MatchStarts(_, _)
MatchStarts(note, i) ==
    IF i > Len(note) THEN {}
    ELSE LET e == MatchAt(note, i, pt_projects, SortedAliases(pt_aliases))
         IN  IF e # 0 THEN {i} \cup MatchStarts(note, e)
             ELSE MatchStarts(note, i + 1)

\* C12 as it is stated: where an alias of the table is in a note as a whole
\* token, the match the pattern makes at that place is the longest such
\* alias; no shorter alias and no other shorter token the pattern knows
\* takes its place, whatever the alias table and the projects.
C12_LongestAliasWins ==
    \A k \in 1..pt_pos :
        LET note == pt_entries[k].message
        IN  \A i \in MatchStarts(note, 1) :
                LET there == {a \in AliasKeys : WholeAliasAt(note, i, a)}
                    e == MatchAt(note, i, pt_projects, SortedAliases(pt_aliases))
                IN  there # {}
                    => /\ SubSeq(note, i, e - 1) \in there
                       /\ \A a \in there : Len(a) <= e - i

\* resolve(resolve(x)) = resolve(x) for the tokens of the notes consumed,
\* the aliases, the ids they stand for and the ids of the include set
ResolveIsIdempotent ==
    \A x \in AliasKeys \cup AliasValues \cup pt_include
             \cup UNION {SetOf(TokensOf(pt_entries[k].message)) : k \in 1..pt_pos} :
        Resolve(pt_aliases, Resolve(pt_aliases, x)) = Resolve(pt_aliases, x)

\* an alias of the table stands for an id that is an alias for another id
SomeAliasOfAlias ==
    \E i, j \in 1..Len(pt_aliases) :
        /\ pt_aliases[j].alias = pt_aliases[i].issue
        /\ pt_aliases[j].issue # pt_aliases[i].issue

\* C13 as it is stated: alias resolution (aliases.get(x, x)) is idempotent,
\* resolve(resolve(x)) = resolve(x) for every token x and every alias table.
C13_ResolveIsIdempotent == ResolveIsIdempotent

\* C13, amended: alias resolution is one lookup; it gives back unchanged
\* every x that is not an alias of the table, and resolve(resolve(x)) =
\* resolve(x) holds for every x exactly when no alias of the table stands
\* for an id that is itself an alias for another id.
C13_ResolveIsIdempotentIffNoAliasOfAlias ==
    /\ ResolveIsIdempotent <=> ~SomeAliasOfAlias
    /\ \A x \in (AliasValues \cup pt_include
                 \cup UNION {SetOf(TokensOf(pt_entries[k].message)) :
                                k \in 1..pt_pos}) \ AliasKeys :
          Resolve(pt_aliases, x) = x

\* with a table in which no alias stands for an alias, an entry whose note
\* holds an alias has given a WorkLog for the id of the alias
C13_Witness ==
    /\ pt_pos >= 1
    /\ pt_aliases # <<>>
    /\ ~SomeAliasOfAlias
    /\ pt_entries[1].message = "p: fb more"
    /\ pt_yielded # <<>>
    /\ pt_yielded[1].issue = "F-1"

\* C14 as it is stated: every WorkLog parse_timelog yields has an issue that
\* is not empty and seconds > 0, whatever the entries, the projects, the
\* alias table and the include set.
C14_WorkLogHasIssueAndDuration ==
    \A k \in 1..Len(pt_yielded) :
        pt_yielded[k].issue # "" /\ pt_yielded[k].seconds > 0

\* the text of the note after its last ':', trimmed
AfterLastColon(note) == Strip(SubSeq(note, RFind(note, ":") + 1, Len(note)))

\* the text without the token at its head, and without it at its end, each
\* trimmed
WithoutPrefix(text, token) ==
    IF StartsWith(text, token)
    THEN Strip(SubSeq(text, Len(token) + 1, Len(text)))
    ELSE text

WithoutSuffix(text, token) ==
    IF EndsWith(text, token)
    THEN Strip(SubSeq(text, 1, Len(text) - Len(token)))
    ELSE text

\* the comment of a note from which the token is cleaned
CommentWithout(note, token) ==
    WithoutSuffix(WithoutPrefix(AfterLastColon(note), token), token)

\* C15 as it is stated: the comment of a WorkLog is the text after the last
\* ':' of the note, trimmed, with the matched token as it is written in the
\* note (the alias, when the issue was given by an alias) removed from its
\* head, then from its end, and trimmed again.
C15_CommentWithoutTheMatchedToken ==
    LET expected == Yielding(ParsedSoFar)
    IN  \A k \in 1..Len(expected) :
            k <= Len(pt_yielded)
            => pt_yielded[k].comment
                  = CommentWithout(expected[k].message,
                                   AcceptedMatch(expected[k].message)[1].token)

\* C15, amended: the comment of a WorkLog is the text after the last ':' of
\* the note, trimmed, with the canonical (alias-resolved) issue id removed
\* from its head, then from its end, and trimmed again; an alias written in
\* the note stays in the comment; when the issue is the empty string the
\* comment is empty.
C15_CommentWithoutTheCanonicalId ==
    LET expected == Yielding(ParsedSoFar)
    IN  /\ Len(pt_yielded) = Len(expected)
        /\ \A k \in 1..Len(expected) :
              LET issue == AcceptedMatch(expected[k].message)[1].issue
              IN  pt_yielded[k].comment
                     = IF issue = "" THEN ""
                       ELSE CommentWithout(expected[k].message, issue)

\* a note with an alias has given a comment that keeps the alias, and a
\* note with the issue id at both ends of its last part a comment without it
C15_Witness ==
    /\ pt_pos = 2
    /\ pt_entries[1].message = "p: fb more"
    /\ pt_entries[2].message = "p: F-1 w F-1"
    /\ Len(pt_yielded) = 2
    /\ pt_yielded[1].issue = "F-1"
    /\ pt_yielded[1].comment = "fb more"
    /\ pt_yielded[2].comment = "w"

\* ------------------------------------------------------------------------
\* Properties of filter_timelog, on the behaviours of SpecFilter
\* ------------------------------------------------------------------------
\* the WorkLogs filter_timelog has consumed
FilteredSoFar == SubSeq(ft_entries, 1, ft_pos)

\* filter_timelog has consumed its input
FilterOver == ft_pos = Len(ft_entries)

\* the instant before which a WorkLog is too old, for a since and an issue
\* as given to filter_timelog: <<>> when there is none
CutoffFor(since, issue) ==
    IF since # <<>> THEN <<since[1].ts>>
    ELSE IF issue = <<>> THEN <<ft_now.ts - 7 * Day>>
    ELSE <<>>

\* the WorkLog is inside the window
InWindow(w, cutoff, until) ==
    /\ cutoff = <<>> \/ w.start.ts >= cutoff[1]
    /\ until = <<>> \/ w.end.ts <= until[1].ts

\* C16: filter_timelog takes since = now - 7 days exactly when since and
\* issue are both None: then no WorkLog that starts more than 7 days before
\* now comes out; with an issue given and no since, the WorkLogs of the
\* issue come out whatever their age, and with a since given the 7 days
\* play no part.
C16_DefaultSinceIffNeitherGiven ==
    /\ ft_yielded
          = SelectSeq(FilteredSoFar,
                      LAMBDA w : /\ InWindow(w, CutoffFor(ft_since, ft_issue),
                                             ft_until)
                                 /\ \/ ft_issue \in {<<>>, <<"">>}
                                    \/ w.issue = ft_issue[1])
    /\ ft_since = <<>> /\ ft_issue = <<>>
       => \A k \in 1..Len(ft_yielded) :
             ft_yielded[k].start.ts >= ft_now.ts - 7 * Day
    /\ ft_since = <<>> /\ ft_issue # <<>> /\ ft_until = <<>>
       => \A k \in 1..ft_pos :
             ft_entries[k].issue = ft_issue[1]
             => ft_entries[k] \in SetOf(ft_yielded)

\* with neither since nor issue given, a WorkLog that starts more than 7
\* days before now was dropped and a later one was kept
C16_Witness ==
    /\ ft_since = <<>>
    /\ ft_issue = <<>>
    /\ ft_until = <<>>
    /\ ft_pos = 2
    /\ ft_entries[1].start.ts < ft_now.ts - 7 * Day
    /\ ft_entries[2].start.ts >= ft_now.ts - 7 * Day
    /\ ft_yielded = <<ft_entries[2]>>

\* C17 as it is stated: filter_timelog keeps exactly the WorkLogs with
\* start >= since (if set), end <= until (if set) and issue equal to the
\* requested issue (if set), in their input order and unchanged; since is
\* taken with its default of now - 7 days when neither since nor issue is
\* given.
C17_KeepsExactlyTheMatching ==
    FilterOver
    => ft_yielded
          = SelectSeq(ft_entries,
                      LAMBDA w : /\ InWindow(w, CutoffFor(ft_since, ft_issue),
                                             ft_until)
                                 /\ ft_issue = <<>> \/ w.issue = ft_issue[1])

\* the window (since2, until2) is inside the window (since1, until1), a
\* bound of <<>> being no bound
WindowInside(since2, until2, since1, until1) ==
    /\ since1 = <<>> \/ (since2 # <<>> /\ since2[1] >= since1[1])
    /\ until1 = <<>> \/ (until2 # <<>> /\ until2[1] <= until1[1])

\* the ts of an optional datetime
TsOf(opt) == IF opt = <<>> THEN <<>> ELSE <<opt[1].ts>>

\* C18 as it is stated: for the same WorkLogs and the same issue filter, a
\* window (since, until) inside the one given, an unset bound counting as
\* unbounded, never adds a WorkLog to the output of filter_timelog.
C18_SmallerWindowAddsNothing ==
    FilterOver
    => \A since2 \in SinceChoices, until2 \in UntilChoices :
          WindowInside(TsOf(since2), TsOf(until2), TsOf(ft_since), TsOf(ft_until))
          => SetOf(filter_timelog(ft_entries, since2, until2, ft_issue, ft_now))
                \subseteq SetOf(ft_yielded)

\* C18, amended: for the same WorkLogs, the same issue filter and the same
\* reading of the clock, a window whose effective bounds are inside the
\* effective bounds of the one given never adds a WorkLog to the output of
\* filter_timelog; the effective since is since when it is given, now - 7
\* days when neither since nor issue is given, and no bound otherwise; an
\* unset until is no bound.
C18_SmallerEffectiveWindowAddsNothing ==
    FilterOver
    => \A since2 \in SinceChoices, until2 \in UntilChoices :
          WindowInside(CutoffFor(since2, ft_issue), TsOf(until2),
                       CutoffFor(ft_since, ft_issue), TsOf(ft_until))
          => SetOf(filter_timelog(ft_entries, since2, until2, ft_issue, ft_now))
                \subseteq SetOf(ft_yielded)

\* two WorkLogs came out for a window, and a window inside it gives the
\* second of them alone
C18_Witness ==
    /\ FilterOver
    /\ ft_since = DateArg(D0)
    /\ ft_until = <<>>
    /\ Len(ft_entries) = 2
    /\ ft_yielded = ft_entries
    /\ ft_entries[1] # ft_entries[2]
    /\ filter_timelog(ft_entries, DateArg(D0 + 1), DateArg(D0 + 2), ft_issue,
                      ft_now) = <<ft_entries[2]>>

====
